---- MODULE Spec2Model ----
(***************************************************************************)
(* Model of the model-lifecycle control plane of TerraFusionPro:           *)
(*   - the model registry (backend/model_versioning.py): a JSON catalog    *)
(*     file, an archive directory and a metrics CSV;                       *)
(*   - the deployment tracker (backend/model_deployment_logger.py): a JSON *)
(*     status file and an append-only CSV of deployment events.            *)
(*                                                                         *)
(* A version string "a.b.c" is modelled by the tuple of its dot-separated  *)
(* parts, <<a, b, c>>.  A part that int() rejects is written -1.  None is  *)
(* the empty tuple.  A file is a record [state, data]: state is "absent",  *)
(* "ok" (complete JSON) or "partial" (opened with mode 'w', so truncated,  *)
(* and not yet completely written).                                        *)
(***************************************************************************)
EXTENDS Integers, Sequences, FiniteSets, TLC

VARIABLES
    metaFile,      \* models/registry/model_metadata.json
    archive,       \* file names present in models/archive
    metricsFile,   \* models/registry/model_metrics.csv
    now,           \* wall clock, in seconds
    nCalls,        \* number of registry calls made so far
    lastCall,      \* the last registry call: its arguments and its outcome
    rpc,           \* per process: where it is in its registry call
    rloc,          \* per process: the call's arguments and local variables
    statusFile,    \* models/deployment_logs/rollout_status.json
    eventsFile,    \* models/deployment_logs/deployment_events.csv
    clock,         \* the tracker's clock: the number of timestamps read
    versioning,    \* MODEL_VERSIONING_AVAILABLE: the registry could be imported
    nDep,          \* number of tracker calls made so far
    depLast,       \* the last tracker call: its arguments and its result
    deployed,      \* the deployments made so far, in the order of the calls
    dpc,           \* per process: where it is in its tracker call
    dloc,          \* per process: the call's arguments and local variables
    auditFile,     \* models/audit_logs/inference_audit_log.csv
    nAud,          \* number of calls of the audit module made so far
    audLast,       \* the last call of the audit module and its result
    nInf,          \* number of inference calls made so far
    infLast,       \* the last inference call: what it did and returned
    feedbackFile,  \* models/feedback/condition_feedback.csv
    driftFile,     \* models/drift_logs/condition_drift_log.csv
    nDrf,          \* number of calls of the drift monitor made so far
    drfLast,       \* the last call of the drift monitor and its result
    writable,      \* which of the catalog and the status file can be written
    scorer         \* the ConditionScorer of the running service, once started

regFiles == <<metaFile, archive, metricsFile>>
regSeqVars == <<nCalls, lastCall>>
regProcVars == <<rpc, rloc>>
depFiles == <<statusFile, eventsFile>>
depSeqVars == <<nDep, depLast, deployed>>
depProcVars == <<dpc, dloc>>
svcVars == <<writable, scorer>>
drfVars == <<feedbackFile, driftFile, nDrf, drfLast, svcVars>>
infVars == <<auditFile, nAud, audLast, nInf, infLast, drfVars>>
ctlVars == <<metaFile, archive, metricsFile, now, nCalls, lastCall, rpc, rloc,
             statusFile, eventsFile, clock, versioning, nDep, depLast, deployed,
             dpc, dloc>>
depVars == <<statusFile, eventsFile, clock, versioning, nDep, depLast, deployed,
             dpc, dloc, infVars>>
vars == <<metaFile, archive, metricsFile, now, nCalls, lastCall, rpc, rloc,
          statusFile, eventsFile, clock, versioning, nDep, depLast, deployed,
          dpc, dloc, auditFile, nAud, audLast, nInf, infLast,
          feedbackFile, driftFile, nDrf, drfLast, writable, scorer>>

----------------------------------------------------------------------------
(* Bounds of the model *)

MaxCalls == 3
MaxClock == 2
MaxInfer == 1
MaxEventFail == 2
MaxAudCalls == 3
MaxDrfCalls == 3

----------------------------------------------------------------------------
(* Values *)

None == <<>>
BadVersion == <<-1>>

ModelNames == {"condition_model", "valuation_model"}
NoPath == ""
Paths == {"model.pth", "missing.pth"}
PathExists(p) == p = "model.pth"

ExplicitVersions == {<<0, 9, 0>>, <<1, 9, 0>>, <<1, 10, 0>>, BadVersion}
VersionInputs == ExplicitVersions \cup {None}

\* a metrics dictionary is the list of its items; None and {} are both empty
NoMetrics == <<>>
SomeMetrics == << <<"accuracy", 90>> >>
CustomDescription == <<"custom description">>
NoVersions == [v \in {} |-> None]
NoModels == [n \in {} |-> None]
NoCatalog == [models |-> NoModels, last_updated |-> 0]

AbsentFile == [state |-> "absent", data |-> NoCatalog]
OkFile(d) == [state |-> "ok", data |-> d]
PartialFile == [state |-> "partial", data |-> NoCatalog]

----------------------------------------------------------------------------
(* Version strings *)

\* int(x) succeeds on every part
AllNumeric(v) == \A i \in DOMAIN v : v[i] >= 0

\* major, minor, patch = map(int, s.split('.')) succeeds
Unpacks3(v) == Len(v) = 3 /\ AllNumeric(v)

\* first index at which two lists differ, 0 when one is a prefix of the other
FirstDiff(a, b) ==
    LET common == 1 .. (IF Len(a) < Len(b) THEN Len(a) ELSE Len(b))
        diffs == {i \in common : a[i] # b[i]}
    IN  IF diffs = {} THEN 0 ELSE CHOOSE i \in diffs : \A j \in diffs : i <= j

\* Python's a > b on lists of int
ListGreater(a, b) ==
    LET i == FirstDiff(a, b)
    IN  IF i = 0 THEN Len(a) > Len(b) ELSE a[i] > b[i]

\* a mutant: the patch part is incremented
AutoVersionPatch(current) == <<current[1], current[2], current[3] + 1>>

\* f"{major}.{minor + 1}.{0}"
AutoVersion(current) == <<current[1], current[2] + 1, 0>>

----------------------------------------------------------------------------
(* The catalog *)

\* the structure load_model_metadata creates when the file does not exist
InitialCatalog(ts) ==
    [models |-> [n \in {"condition_model"} |->
                    [current_version |-> <<1, 0, 0>>, versions |-> NoVersions]],
     last_updated |-> ts]

\* the file after load_model_metadata has run (it is created when absent)
FileAfterLoad(file, ts) ==
    IF file.state = "absent" THEN OkFile(InitialCatalog(ts)) ELSE file

\* the dictionary load_model_metadata returns (the file is not "partial")
LoadedMetadata(file, ts) == FileAfterLoad(file, ts).data

\* the file after save_model_metadata has returned
SavedFile(metadata, ts) == OkFile([metadata EXCEPT !.last_updated = ts])

\* metadata["models"][name] = entry
WithEntry(metadata, name, entry) ==
    [metadata EXCEPT !.models =
        [n \in DOMAIN metadata.models \cup {name} |->
            IF n = name THEN entry ELSE metadata.models[n]]]

\* "Initialize model entry if it doesn't exist"
EnsureModelEntry(metadata, name) ==
    IF name \in DOMAIN metadata.models THEN metadata
    ELSE WithEntry(metadata, name,
                   [current_version |-> <<0, 0, 0>>, versions |-> NoVersions])

\* f"{model_name}_v{version}_{timestamp}{ext}" in the archive directory
ArchivedPath(name, version, ts) == <<name, version, ts>>

DefaultDescription(name, version) == <<"Version", version, "of", name>>

VersionRecord(name, version, ts, metrics, description) ==
    [file_path |-> ArchivedPath(name, version, ts),
     timestamp |-> ts,
     metrics |-> IF metrics = None THEN NoMetrics ELSE metrics,
     description |-> IF description = None
                     THEN DefaultDescription(name, version) ELSE description]

\* metadata["models"][name]["versions"][version] = rec
WithVersionRecord(metadata, name, version, rec) ==
    LET entry == metadata.models[name]
    IN  WithEntry(metadata, name,
            [entry EXCEPT !.versions =
                [v \in DOMAIN entry.versions \cup {version} |->
                    IF v = version THEN rec ELSE entry.versions[v]]])

\* "Update current version if it's a newer version"
WithCurrentIfNewer(metadata, name, version) ==
    LET entry == metadata.models[name]
    IN  IF ListGreater(version, entry.current_version)
        THEN WithEntry(metadata, name, [entry EXCEPT !.current_version = version])
        ELSE metadata

\* "Log metrics to CSV if provided": a header row, then one row per call
NoMetricsFile == [exists |-> FALSE, rows |-> <<>>]
MetricsFileAfterLog(mfile, name, version, ts, metrics) ==
    IF metrics = None \/ metrics = NoMetrics THEN mfile
    ELSE [exists |-> TRUE,
          rows |-> Append(IF mfile.exists THEN mfile.rows ELSE <<>>,
                          <<ts, name, version, metrics>>)]

----------------------------------------------------------------------------
(* The registry's handlers, each as a function of the files it reads.  The *)
(* result names the exception raised ("ok" when none) and the files as the *)
(* handler leaves them.                                                    *)

RegResult(outcome, file, arch, mfile, version) ==
    [outcome |-> outcome, file |-> file, archive |-> arch,
     metricsFile |-> mfile, version |-> version]

\* the version register_model_version works with: the argument, or the
\* generated one
ChosenVersion(metadata, name, model_version) ==
    IF model_version = None
    THEN AutoVersion(metadata.models[name].current_version)
    ELSE model_version

\* register_model_version
RegisterModelVersion(file, arch, mfile, name, path, model_version, metrics, description, ts) ==
    IF ~PathExists(path)
    THEN RegResult("FileNotFoundError", file, arch, mfile, None)
    ELSE IF file.state = "partial"
    THEN RegResult("JSONDecodeError", file, arch, mfile, None)
    ELSE
    LET loaded == FileAfterLoad(file, ts)
        metadata1 == EnsureModelEntry(loaded.data, name)
        current == metadata1.models[name].current_version
    IN  IF model_version = None /\ ~Unpacks3(current)
        THEN RegResult("ValueError", loaded, arch, mfile, None)
        ELSE
        LET version == ChosenVersion(metadata1, name, model_version)
            \* shutil.copy(model_path, archived_model_path)
            arch1 == arch \cup {ArchivedPath(name, version, ts)}
            rec == VersionRecord(name, version, ts, metrics, description)
            metadata2 == WithVersionRecord(metadata1, name, version, rec)
        IN  IF ~AllNumeric(current) \/ ~AllNumeric(version)
            THEN RegResult("ValueError", loaded, arch1, mfile, None)
            ELSE RegResult("ok",
                    SavedFile(WithCurrentIfNewer(metadata2, name, version), ts),
                    arch1,
                    MetricsFileAfterLog(mfile, name, version, ts, metrics),
                    version)

\* set_current_version
SetCurrentVersionResult(file, name, version, ts) ==
    IF file.state = "partial"
    THEN [outcome |-> "JSONDecodeError", file |-> file]
    ELSE
    LET loaded == FileAfterLoad(file, ts)
        metadata == loaded.data
    IN  IF name \notin DOMAIN metadata.models
        THEN [outcome |-> "ValueError", file |-> loaded]
        ELSE IF version \notin DOMAIN metadata.models[name].versions
        THEN [outcome |-> "ValueError", file |-> loaded]
        ELSE [outcome |-> "ok",
              file |-> SavedFile(WithEntry(metadata, name,
                          [metadata.models[name] EXCEPT !.current_version = version]),
                          ts)]

\* initialize_model_registry: an empty catalog is written when the file does
\* not exist, then the initial model, if given and present, is registered
InitializeModelRegistry(file, arch, mfile, initial_model_path, ts) ==
    LET file1 == IF file.state = "absent"
                 THEN OkFile([models |-> NoModels, last_updated |-> ts])
                 ELSE file
    IN  IF initial_model_path # NoPath /\ PathExists(initial_model_path)
        THEN RegisterModelVersion(file1, arch, mfile, "condition_model",
                 initial_model_path, <<1, 0, 0>>, None,
                 <<"Initial condition model">>, ts)
        ELSE RegResult("ok", file1, arch, mfile, None)

\* get_model_path: the path, or the exception
GetModelPathResult(file, name, version, ts) ==
    IF file.state = "partial" THEN [outcome |-> "JSONDecodeError", path |-> None]
    ELSE
    LET metadata == LoadedMetadata(file, ts)
    IN  IF name \notin DOMAIN metadata.models
        THEN [outcome |-> "ValueError", path |-> None]
        ELSE
        LET v == IF version = None
                 THEN metadata.models[name].current_version ELSE version
        IN  IF v \notin DOMAIN metadata.models[name].versions
            THEN [outcome |-> "ValueError", path |-> None]
            ELSE [outcome |-> "ok",
                  path |-> metadata.models[name].versions[v].file_path]

\* get_current_version: the version, or the exception
GetCurrentVersionResult(file, name, ts) ==
    IF file.state = "partial" THEN [outcome |-> "JSONDecodeError", version |-> None]
    ELSE
    LET metadata == LoadedMetadata(file, ts)
    IN  IF name \notin DOMAIN metadata.models
        THEN [outcome |-> "ValueError", version |-> None]
        ELSE [outcome |-> "ok", version |-> metadata.models[name].current_version]

\* get_model_versions: the list of keys, as a set
GetModelVersions(file, name, ts) ==
    LET metadata == LoadedMetadata(file, ts)
    IN  IF name \notin DOMAIN metadata.models THEN {}
        ELSE DOMAIN metadata.models[name].versions

----------------------------------------------------------------------------
(* The deployment tracker: the status file and the event log *)

HistoryLimit == 10

EVENT_DEPLOYMENT == "deployment"
EVENT_ROLLBACK == "rollback"
EVENT_ERROR == "error"
EVENT_RECOVERY == "recovery"
EVENT_CONFIG_CHANGE == "config_change"
EventTypes ==
    {EVENT_DEPLOYMENT, EVENT_ROLLBACK, EVENT_ERROR, EVENT_RECOVERY,
     EVENT_CONFIG_CHANGE}

Deployment(model, version, ts, status) ==
    [model |-> model, version |-> version, timestamp |-> ts, status |-> status]

\* the status _create_default_status builds
DefaultStatus(ts) ==
    [current_deployment |-> Deployment("condition_model", <<1, 0, 0>>, ts, "active"),
     fallback_enabled |-> FALSE,
     fallback_version |-> None,
     deployment_history |-> <<>>,
     last_updated |-> ts]

NoStatusFile == [state |-> "absent", data |-> DefaultStatus(0)]
PartialStatusFile == [state |-> "partial", data |-> DefaultStatus(0)]

\* the file after _save_status has written it
SavedStatus(status, ts) ==
    [state |-> "ok", data |-> [status EXCEPT !.last_updated = ts]]

\* DeploymentStatus(): the file after _load_status (a default status is
\* written when the file is absent or cannot be parsed)
StatusFileAfterLoad(file, ts) ==
    IF file.state = "ok" THEN file ELSE SavedStatus(DefaultStatus(ts), ts)

\* DeploymentStatus().status
LoadedStatus(file, ts) == StatusFileAfterLoad(file, ts).data

\* history[:10]
Truncated(history) ==
    IF Len(history) > HistoryLimit THEN SubSeq(history, 1, HistoryLimit)
    ELSE history

\* a mutant: the history is cut only when it is longer than 11 entries
UpdateDeploymentLateCut(status, model, version, st, ts) ==
    LET pushed == <<status.current_deployment>> \o status.deployment_history
    IN  [status EXCEPT
            !.deployment_history =
                IF Len(pushed) > HistoryLimit + 1
                THEN SubSeq(pushed, 1, HistoryLimit) ELSE pushed,
            !.current_deployment = Deployment(model, version, ts, st)]

\* update_deployment, before it saves
UpdateDeployment(status, model, version, st, ts) ==
    [status EXCEPT
        !.deployment_history =
            Truncated(<<status.current_deployment>> \o status.deployment_history),
        !.current_deployment = Deployment(model, version, ts, st)]

\* set_fallback_config, before it saves
SetFallbackConfig(status, enabled, fallback_version) ==
    [status EXCEPT !.fallback_enabled = enabled,
                   !.fallback_version = fallback_version]

NoEventsFile == [exists |-> FALSE, rows |-> <<>>]

EventRow(ts, event_type, model, version, message, metadata) ==
    [timestamp |-> ts, event_type |-> event_type, model |-> model,
     version |-> version, message |-> message, metadata |-> metadata]

\* the header is written when the file does not exist, then the row is appended
EventsAfterAppend(efile, row) ==
    [exists |-> TRUE, rows |-> Append(efile.rows, row)]

\* a mutant: a configuration change updates the deployment too
UpdatesDeploymentAlsoConfig(event_type) ==
    event_type \in {EVENT_DEPLOYMENT, EVENT_ROLLBACK, EVENT_CONFIG_CHANGE}

\* "Update deployment status if it's a deployment or rollback event"
UpdatesDeployment(event_type) == event_type \in {EVENT_DEPLOYMENT, EVENT_ROLLBACK}

\* log_deployment_event: the two files as it leaves them
LogDeploymentEvent(sfile, efile, event_type, model, version, message, metadata, ts) ==
    LET efile1 == EventsAfterAppend(efile,
                      EventRow(ts, event_type, model, version, message, metadata))
    IN  IF UpdatesDeployment(event_type)
        THEN [statusFile |->
                SavedStatus(UpdateDeployment(LoadedStatus(sfile, ts), model,
                                             version, "active", ts), ts),
              eventsFile |-> efile1]
        ELSE [statusFile |-> sfile, eventsFile |-> efile1]

\* the message configure_fallback logs
FallbackMessage(enabled, fallback_version) ==
    <<"Fallback", IF enabled THEN "enabled" ELSE "disabled", fallback_version>>

\* configure_fallback: the exception raised ("ok" when none) and the files
ConfigureFallbackResult(sfile, efile, mfile, avail, enabled, fallback_version, ts) ==
    LET checks == fallback_version # None /\ avail
    IN  IF checks /\ mfile.state = "partial"
        THEN [outcome |-> "JSONDecodeError", statusFile |-> sfile,
              eventsFile |-> efile, metaFile |-> mfile]
        ELSE
        LET mfile1 == IF checks THEN FileAfterLoad(mfile, ts) ELSE mfile
            status == SetFallbackConfig(LoadedStatus(sfile, ts), enabled,
                                        fallback_version)
            sfile1 == SavedStatus(status, ts)
            r == LogDeploymentEvent(sfile1, efile, EVENT_CONFIG_CHANGE,
                     "condition_model", status.current_deployment.version,
                     FallbackMessage(enabled, fallback_version),
                     <<enabled, fallback_version>>, ts)
        IN  [outcome |-> "ok", statusFile |-> r.statusFile,
             eventsFile |-> r.eventsFile, metaFile |-> mfile1]

\* a mutant: the enabled flag is not looked at
FallbackModelVersionEvenDisabled(status) ==
    IF status.fallback_version # None THEN status.fallback_version
    ELSE IF status.deployment_history # <<>>
         THEN status.deployment_history[1].version
    ELSE None

\* get_fallback_model_version, given the status it loaded
FallbackModelVersion(status) ==
    IF ~status.fallback_enabled THEN None
    ELSE IF status.fallback_version # None THEN status.fallback_version
    ELSE IF status.deployment_history # <<>>
         THEN status.deployment_history[1].version
    ELSE None

----------------------------------------------------------------------------
(* The inference audit trail (backend/audit_inference.py): a CSV file of   *)
(* inference records.  A score is written in hundredths: 2.0 is 200.  The  *)
(* timestamp of a record has the granularity of a second.                  *)

NoAuditFile == [exists |-> FALSE, rows |-> <<>>, backups |-> {}]

\* the row log_inference writes
InferenceRow(ts, filename, model_name, model_version, score, fallback_used) ==
    [timestamp |-> ts, filename |-> filename, model_name |-> model_name,
     model_version |-> model_version, score |-> score,
     fallback_used |-> fallback_used]

\* log_inference: the header is written when the file does not exist, then
\* the row is appended
LogInference(afile, row) ==
    [afile EXCEPT !.exists = TRUE, !.rows = Append(afile.rows, row)]

\* seq[:n]
Take(seq, n) == IF Len(seq) > n THEN SubSeq(seq, 1, n) ELSE seq

\* inferences.sort(key=timestamp, reverse=True): row i is placed before row j.
\* The sort is stable, also when reversed: rows of equal timestamp keep the
\* order of the file.
SortsBefore(rows, i, j) ==
    \/ rows[i].timestamp > rows[j].timestamp
    \/ rows[i].timestamp = rows[j].timestamp /\ i < j

\* a mutant: the rows are sorted oldest first
SortedOrderAscending(rows) ==
    [k \in 1 .. Len(rows) |->
        CHOOSE i \in 1 .. Len(rows) :
            Cardinality({j \in 1 .. Len(rows) : SortsBefore(rows, i, j)}) = k - 1]

\* the sorted list, as the list of the rows' positions in the file
SortedOrder(rows) ==
    [k \in 1 .. Len(rows) |->
        CHOOSE i \in 1 .. Len(rows) :
            Cardinality({j \in 1 .. Len(rows) : SortsBefore(rows, j, i)}) = k - 1]

\* get_inferences, as positions in the file; a limit n is written <<n>>
GetInferencesOrder(afile, limit) ==
    IF ~afile.exists THEN <<>>
    ELSE IF limit = None THEN SortedOrder(afile.rows)
    ELSE Take(SortedOrder(afile.rows), limit[1])

\* get_inferences
GetInferences(afile, limit) ==
    LET order == GetInferencesOrder(afile, limit)
    IN  [k \in 1 .. Len(order) |-> afile.rows[order[k]]]

ScoreBuckets == {"1.0-1.9", "2.0-2.9", "3.0-3.9", "4.0-5.0"}

\* a mutant: the top bucket is half-open like the others
ScoreBucketTopOpen(score) ==
    IF 100 <= score /\ score < 200 THEN "1.0-1.9"
    ELSE IF 200 <= score /\ score < 300 THEN "2.0-2.9"
    ELSE IF 300 <= score /\ score < 400 THEN "3.0-3.9"
    ELSE IF 400 <= score /\ score < 500 THEN "4.0-5.0"
    ELSE "none"

\* "Count for distribution": the bucket a score is counted in
ScoreBucket(score) ==
    IF 100 <= score /\ score < 200 THEN "1.0-1.9"
    ELSE IF 200 <= score /\ score < 300 THEN "2.0-2.9"
    ELSE IF 300 <= score /\ score < 400 THEN "3.0-3.9"
    ELSE IF 400 <= score /\ score <= 500 THEN "4.0-5.0"
    ELSE "none"

\* get_inference_stats: the counts it returns
GetInferenceStats(afile, limit) ==
    LET inferences == GetInferences(afile, limit)
    IN  [total_inferences |-> Len(inferences),
         score_distribution |->
            [b \in ScoreBuckets |->
                Cardinality({k \in 1 .. Len(inferences) :
                                ScoreBucket(inferences[k].score) = b})],
         fallback_count |->
            Cardinality({k \in 1 .. Len(inferences) : inferences[k].fallback_used})]

\* clear_audit_log: the log is copied when asked, then rewritten with the
\* header row only
ClearAuditLog(afile, backup, ts) ==
    IF ~afile.exists THEN afile
    ELSE [exists |-> TRUE, rows |-> <<>>,
          backups |-> IF backup THEN afile.backups \cup {<<ts, afile.rows>>}
                      ELSE afile.backups]

AudCall(op, limit, order, stats) ==
    [op |-> op, limit |-> limit, order |-> order, stats |-> stats]

NoStats == GetInferenceStats(NoAuditFile, None)
NoAudCall == AudCall("none", None, <<>>, NoStats)

----------------------------------------------------------------------------
(* A catalog or a status file that cannot be written *)

\* _save_status: a failure of the write is caught and printed
SaveStatus(sfile, status, w, ts) ==
    IF w THEN SavedStatus(status, ts) ELSE sfile

\* log_deployment_event when the status file may not be writable: the
\* exception raised ("ok" when none) and the files
LogDeploymentEventOn(sfile, efile, event_type, model, version, w, ts) ==
    [outcome |-> "ok",
     statusFile |->
        IF UpdatesDeployment(event_type)
        THEN SaveStatus(sfile, UpdateDeployment(LoadedStatus(sfile, ts), model,
                                                version, "active", ts), w, ts)
        ELSE sfile,
     eventsFile |-> EventsAfterAppend(efile,
                        EventRow(ts, event_type, model, version, <<"message">>, <<>>))]

\* configure_fallback (no version to verify) when the status file may not
\* be writable
ConfigureFallbackOn(sfile, efile, enabled, w, ts) ==
    LET status == SetFallbackConfig(LoadedStatus(sfile, ts), enabled, None)
    IN  [outcome |-> "ok",
         statusFile |-> SaveStatus(sfile, status, w, ts),
         eventsFile |-> EventsAfterAppend(efile,
                            EventRow(ts, EVENT_CONFIG_CHANGE, "condition_model",
                                     status.current_deployment.version,
                                     FallbackMessage(enabled, None),
                                     <<enabled, None>>))]

\* register_model_version when the catalog may not be writable: open(.., 'w')
\* raises in load_model_metadata (no catalog yet) or in save_model_metadata
RegisterModelVersionOn(file, arch, mfile, name, path, model_version, w, ts) ==
    LET r == RegisterModelVersion(file, arch, mfile, name, path, model_version,
                                  None, None, ts)
    IN  IF w THEN r
        ELSE IF file.state = "absent" /\ PathExists(path)
        THEN RegResult("PermissionError", file, arch, mfile, None)
        ELSE IF r.outcome = "ok"
        THEN RegResult("PermissionError", file, r.archive, r.metricsFile, None)
        ELSE r

\* set_current_version when the catalog may not be writable
SetCurrentVersionOn(file, name, version, w, ts) ==
    LET r == SetCurrentVersionResult(file, name, version, ts)
    IN  IF w THEN r
        ELSE IF file.state = "absent" \/ r.outcome = "ok"
        THEN [outcome |-> "PermissionError", file |-> file]
        ELSE r

----------------------------------------------------------------------------
(* The drift monitor (backend/drift_monitor.py).  Scores and differences   *)
(* are in hundredths; a mean is the pair <<sum, count>> of the exact sum   *)
(* of the group's differences and the number of its records.  The median  *)
(* and the standard deviation of a drift record are left out.              *)

NoFeedbackFile == [exists |-> FALSE, rows |-> <<>>]
NoDriftFile == [state |-> "absent", rows |-> <<>>]

\* the timestamps of one day
DayLength == 2

\* pd.to_datetime(timestamp).dt.date
DateOf(ts) == (ts + DayLength - 1) \div DayLength

\* ensure_feedback_dir: the feedback file is made, with its header only
EnsureFeedbackDir(ffile) == [ffile EXCEPT !.exists = TRUE]

\* ensure_drift_dir: the drift file is made, with its header only
EnsureDriftDir(dfile) ==
    IF dfile.state = "absent" THEN [state |-> "ok", rows |-> <<>>] ELSE dfile

\* log_feedback: the row appended to the feedback file
LogFeedback(ffile, ai_score, user_score, model_version, ts) ==
    [exists |-> TRUE,
     rows |-> Append(ffile.rows,
                  [timestamp |-> ts, ai_score |-> ai_score,
                   user_score |-> user_score,
                   difference |-> user_score - ai_score,
                   model_version |-> model_version])]

\* the keys of feedback_df.groupby(['date', 'model_version'])
GroupKeys(rows) ==
    {<<DateOf(rows[i].timestamp), rows[i].model_version>> : i \in 1 .. Len(rows)}

\* the rows of one group
GroupOf(rows, key) ==
    {i \in 1 .. Len(rows) :
        <<DateOf(rows[i].timestamp), rows[i].model_version>> = key}

RECURSIVE SumDifference(_, _)
\* group['difference'].sum()
SumDifference(rows, idx) ==
    IF idx = {} THEN 0
    ELSE LET i == CHOOSE j \in idx : TRUE
         IN  rows[i].difference + SumDifference(rows, idx \ {i})

\* a mutant: the thresholds belong to conservative and optimistic
DriftDirectionClosed(mean) ==
    IF mean[1] >= 10 * mean[2] THEN "conservative"
    ELSE IF mean[1] <= -10 * mean[2] THEN "optimistic"
    ELSE "neutral"

\* "Determine drift direction": mean_drift > 0.1, mean_drift < -0.1, else
DriftDirection(mean) ==
    IF mean[1] > 10 * mean[2] THEN "conservative"
    ELSE IF mean[1] < -10 * mean[2] THEN "optimistic"
    ELSE "neutral"

\* the drift record of one group
DriftRecord(rows, key) ==
    LET idx == GroupOf(rows, key)
        mean == <<SumDifference(rows, idx), Cardinality(idx)>>
    IN  [date |-> key[1], model_version |-> key[2], mean_drift |-> mean,
         sample_count |-> Cardinality(idx),
         max_drift |-> CHOOSE d \in {rows[i].difference : i \in idx} :
                           \A i \in idx : rows[i].difference <= d,
         min_drift |-> CHOOSE d \in {rows[i].difference : i \in idx} :
                           \A i \in idx : rows[i].difference >= d,
         drift_direction |-> DriftDirection(mean)]

\* groupby iterates the groups by date, then by model_version
KeyBefore(a, b) == a[1] < b[1] \/ (a[1] = b[1] /\ ListGreater(b[2], a[2]))

\* drift_records, in the order of the groups
DriftRecords(rows) ==
    LET keys == GroupKeys(rows)
    IN  [k \in 1 .. Cardinality(keys) |->
            DriftRecord(rows,
                CHOOSE key \in keys :
                    Cardinality({o \in keys : KeyBefore(o, key)}) = k - 1)]

\* a mutant: the new records are added to the drift file
CalculateDailyDriftAppending(ffile, dfile, f) ==
    LET ff == EnsureFeedbackDir(ffile)
        df == EnsureDriftDir(dfile)
        records == DriftRecords(ff.rows)
    IN  IF f.readFails \/ Len(ff.rows) = 0 \/ f.write = "open"
        THEN [ok |-> FALSE, feedbackFile |-> ff, driftFile |-> df]
        ELSE IF f.write = "partial"
        THEN [ok |-> FALSE, feedbackFile |-> ff,
              driftFile |-> [state |-> "partial", rows |-> <<>>]]
        ELSE [ok |-> TRUE, feedbackFile |-> ff,
              driftFile |-> [state |-> "ok", rows |-> df.rows \o records]]

\* calculate_daily_drift.  f says what fails in the call: reading the
\* feedback (malformed rows), opening the drift file for writing, or the
\* writing itself, after the file was opened and so emptied
CalculateDailyDrift(ffile, dfile, f) ==
    LET ff == EnsureFeedbackDir(ffile)
        df == EnsureDriftDir(dfile)
        records == DriftRecords(ff.rows)
    IN  IF f.readFails \/ Len(ff.rows) = 0 \/ f.write = "open"
        THEN [ok |-> FALSE, feedbackFile |-> ff, driftFile |-> df]
        ELSE IF f.write = "partial"
        THEN [ok |-> FALSE, feedbackFile |-> ff,
              driftFile |-> [state |-> "partial", rows |-> <<>>]]
        ELSE [ok |-> TRUE, feedbackFile |-> ff,
              driftFile |-> [state |-> "ok", rows |-> records]]

\* get_drift_trends: an error, or the drift records it reports on (without a
\* record in the window, all of them)
GetDriftTrends(dfile, days, today) ==
    LET df == EnsureDriftDir(dfile)
        recent == {i \in 1 .. Len(df.rows) : df.rows[i].date >= today - days}
    IN  IF df.state = "partial" \/ Len(df.rows) = 0
        THEN [error |-> TRUE, records |-> {}, driftFile |-> df]
        ELSE [error |-> FALSE,
              records |-> IF recent = {} THEN 1 .. Len(df.rows) ELSE recent,
              driftFile |-> df]

DrfCall(op, ok, records) == [op |-> op, ok |-> ok, records |-> records]
NoDrfCall == DrfCall("none", TRUE, {})

----------------------------------------------------------------------------
(* The fallback-aware inference (backend/condition_inference.py, called by *)
(* analyze_property_condition of backend/routes/condition_analysis.py).    *)
(* What can fail in a call is an input f of the call: the loads and the    *)
(* executions of the models, the writes of the event log (by the ordinal   *)
(* of the log_deployment_event call within the inference) and of the audit *)
(* log.  A context c holds the files as the call has left them so far and  *)
(* the number k of log_deployment_event calls it has made.                 *)

\* the model_version strings that are not versions
FallbackSentinel == <<-2>>
UnknownVersion == <<-3>>

\* os.path.join(os.getcwd(), "models", "condition_model.pth")
DefaultModelPath == "model.pth"

\* round(score, 1)
Round1(score) == ((score + 5) \div 10) * 10

\* max(1.0, min(5.0, score))
Clamp(score) ==
    LET upper == IF score < 500 THEN score ELSE 500
    IN  IF upper > 100 THEN upper ELSE 100

\* _fallback_scoring: the image statistics give a score, brought into the range
FallbackScoring(f) == Clamp(f.heuristic)

Context(meta, arch, mfile, sfile, efile, clk) ==
    [meta |-> meta, arch |-> arch, mfile |-> mfile, sfile |-> sfile,
     efile |-> efile, clk |-> clk, k |-> 0]

\* a log_deployment_event call of the inference: it raises when writing the
\* event log fails, before anything is written
LogStep(c, f, event_type, version) ==
    IF (c.k + 1) \in f.eventFails
    THEN [raised |-> TRUE, c |-> [c EXCEPT !.k = c.k + 1]]
    ELSE LET r == LogDeploymentEvent(c.sfile, c.efile, event_type,
                      "condition_model", version, <<"message">>, <<>>, c.clk)
         IN  [raised |-> FALSE,
              c |-> [c EXCEPT !.k = c.k + 1, !.sfile = r.statusFile,
                              !.efile = r.eventsFile, !.clk = c.clk + 1]]

\* a get_fallback_model_version call of the inference
FallbackStep(c) ==
    [version |-> FallbackModelVersion(LoadedStatus(c.sfile, c.clk)),
     c |-> [c EXCEPT !.sfile = StatusFileAfterLoad(c.sfile, c.clk),
                     !.clk = c.clk + 1]]

\* get_model_path and torch.load of a version succeed
Loads(c, version, loadFails, ts) ==
    LET gp == GetModelPathResult(c.meta, "condition_model", version, ts)
    IN  gp.outcome = "ok" /\ gp.path \in c.arch /\ ~loadFails

\* the scorer's attributes; weights names the artifact loaded into self.model,
\* attempted the version the scorer first resolved
NewScorer ==
    [model_loaded |-> FALSE, using_fallback |-> FALSE, version |-> None,
     fallback_model |-> None, weights |-> "none", attempted |-> None]

\* ConditionScorer.__init__, the try block of the versioned load
TryVersioned(c, f, ts) ==
    LET cv == GetCurrentVersionResult(c.meta, "condition_model", ts)
        c1 == [c EXCEPT !.meta = IF c.meta.state = "partial" THEN c.meta
                                  ELSE FileAfterLoad(c.meta, ts)]
        sc1 == [NewScorer EXCEPT !.version = cv.version, !.attempted = cv.version]
        sc2 == [sc1 EXCEPT !.model_loaded = TRUE, !.weights = "primary"]
        l == LogStep(c1, f, EVENT_DEPLOYMENT, cv.version)
        g == FallbackStep(l.c)
    IN  IF cv.outcome # "ok" THEN [raised |-> TRUE, sc |-> NewScorer, c |-> c1]
        ELSE IF ~Loads(c1, cv.version, f.primaryLoadFails, ts)
        THEN [raised |-> TRUE, sc |-> sc1, c |-> c1]
        ELSE IF l.raised THEN [raised |-> TRUE, sc |-> sc2, c |-> l.c]
        ELSE [raised |-> FALSE,
              sc |-> [sc2 EXCEPT !.fallback_model =
                         IF /\ g.version # None
                            /\ g.version # cv.version
                            /\ Loads(g.c, g.version, f.fallbackLoadFails, ts)
                         THEN g.version ELSE None],
              c |-> g.c]

\* ConditionScorer.__init__, the except block of the versioned load
OnVersionedError(r, f, ts) ==
    LET l == LogStep(r.c, f, EVENT_ERROR,
                 IF r.sc.version # None THEN r.sc.version ELSE UnknownVersion)
        g == FallbackStep(l.c)
        loaded == g.version # None /\ Loads(g.c, g.version, f.fallbackLoadFails, ts)
    IN  IF l.raised THEN [raised |-> TRUE, sc |-> r.sc, c |-> l.c]
        ELSE IF loaded
        THEN [raised |-> FALSE,
              sc |-> [r.sc EXCEPT !.model_loaded = TRUE, !.using_fallback = TRUE,
                                  !.version = g.version, !.weights = "fallback"],
              c |-> LogStep(g.c, f, EVENT_RECOVERY, g.version).c]
        ELSE [raised |-> FALSE, sc |-> r.sc, c |-> g.c]

\* ConditionScorer.__init__, "Load from specific path if versioning failed"
LoadFromPath(r, f, ts) ==
    LET sc1 == [r.sc EXCEPT !.model_loaded = TRUE, !.weights = "default"]
        l == LogStep(r.c, f, EVENT_DEPLOYMENT, <<1, 0, 0>>)
        reg == InitializeModelRegistry(l.c.meta, l.c.arch, l.c.mfile,
                                       DefaultModelPath, ts)
        e1 == LogStep(r.c, f, EVENT_ERROR, UnknownVersion)
        e2 == LogStep(l.c, f, EVENT_ERROR, UnknownVersion)
    IN  IF r.sc.model_loaded \/ f.default = "absent" THEN r
        ELSE IF f.default = "corrupt"
        THEN [raised |-> e1.raised, sc |-> r.sc, c |-> e1.c]
        ELSE IF l.raised THEN [raised |-> e2.raised, sc |-> sc1, c |-> e2.c]
        ELSE [raised |-> FALSE, sc |-> sc1,
              c |-> [l.c EXCEPT !.meta = reg.file, !.arch = reg.archive,
                                !.mfile = reg.metricsFile]]

\* the versioned load with its except block
LoadVersioned(c, f, ts) ==
    CHOOSE h \in {IF a.raised THEN OnVersionedError(a, f, ts) ELSE a :
                     a \in {TryVersioned(c, f, ts)}} : TRUE

\* ConditionScorer(): raised says an exception left the constructor
ScorerInit(c, f, ts, avail) ==
    IF ~avail THEN [raised |-> FALSE, sc |-> NewScorer, c |-> c]
    ELSE CHOOSE r \in {IF h.raised THEN h ELSE LoadFromPath(h, f, ts) :
                          h \in {LoadVersioned(c, f, ts)}} : TRUE

Prediction(raised, score, tier, served, c) ==
    [raised |-> raised, score |-> score, tier |-> tier, served |-> served, c |-> c]

\* predict_condition: the score, the tier that produced it and the version of
\* the model that was run (None when no model was)
PredictCondition(sc, c, f) ==
    LET heuristic == Prediction(FALSE, FallbackScoring(f), "heuristic", None, c)
        l == LogStep(c, f, EVENT_ERROR,
                 IF sc.version # None THEN sc.version ELSE UnknownVersion)
        g == FallbackStep(l.c)
        rec == LogStep(g.c, f, EVENT_RECOVERY,
                   IF g.version # None THEN g.version ELSE UnknownVersion)
    IN  IF ~sc.model_loaded THEN heuristic
        ELSE IF ~f.primaryExecFails
        THEN Prediction(FALSE, f.raw, sc.weights,
                 IF sc.weights = "default" THEN None ELSE sc.version, c)
        ELSE IF l.raised THEN Prediction(TRUE, 0, "none", None, l.c)
        ELSE IF sc.fallback_model # None /\ ~f.fallbackExecFails
        THEN IF rec.raised
             THEN Prediction(FALSE, FallbackScoring(f), "heuristic", None, rec.c)
             ELSE Prediction(FALSE, f.raw, "fallback", sc.fallback_model, rec.c)
        ELSE Prediction(FALSE, FallbackScoring(f), "heuristic", None, l.c)

\* a mutant: the except block has no try of its own
OnAnalysisErrorUnguarded(c, f, ts, avail) ==
    LET i == ScorerInit(c, f, ts, avail)
    IN  [raised |-> i.raised, score |-> Round1(FallbackScoring(f)),
         tier |-> "heuristic", c |-> i.c]

\* analyze_property_condition, the except block: a second scorer is made for
\* its heuristic; a random score is the last resort
OnAnalysisError(c, f, ts, avail) ==
    LET i == ScorerInit(c, f, ts, avail)
    IN  IF i.raised
        THEN [raised |-> FALSE, score |-> Round1(f.random), tier |-> "random", c |-> i.c]
        ELSE [raised |-> FALSE, score |-> Round1(FallbackScoring(f)), tier |-> "heuristic",
              c |-> i.c]

\* analyze_property_condition, the try block: the scorer is made and asked
\* for the score
TryAnalysis(c, f, ts, avail) ==
    CHOOSE t \in {IF i.raised
                    THEN [raised |-> TRUE, p |-> Prediction(TRUE, 0, "none", None, i.c),
                          sc |-> i.sc]
                    ELSE [raised |-> FALSE, p |-> PredictCondition(i.sc, i.c, f),
                          sc |-> i.sc] :
                    i \in {ScorerInit(c, f, ts, avail)}} : TRUE

\* analyze_property_condition up to the audit: the score, the version and
\* the fallback flag it will record
AnalysisOutcome(t, f, ts, avail) ==
    LET e == OnAnalysisError(t.p.c, f, ts, avail)
    IN  IF t.raised \/ t.p.raised
        THEN [raised |-> e.raised, score |-> e.score, tier |-> e.tier,
              served |-> None, attempted |-> t.sc.attempted,
              model_version |-> FallbackSentinel, fallback_used |-> TRUE,
              c |-> e.c]
        ELSE [raised |-> FALSE, score |-> Clamp(Round1(t.p.score)),
              tier |-> t.p.tier, served |-> t.p.served,
              attempted |-> t.sc.attempted,
              model_version |-> IF t.sc.version # None THEN t.sc.version
                                ELSE <<2, 0, 0>>,
              fallback_used |-> t.sc.using_fallback, c |-> t.p.c]

\* analyze_property_condition, "Log this inference to the audit trail", and
\* the return
Audited(o, afile, f, ts) ==
    LET row == InferenceRow(ts, "photo.jpg", "condition_model", o.model_version,
                            o.score, o.fallback_used)
    IN  [raised |-> o.raised, score |-> o.score, tier |-> o.tier,
         served |-> o.served, attempted |-> o.attempted,
         logged |-> IF o.raised \/ f.auditFails THEN 0 ELSE 1, row |-> row,
         c |-> o.c,
         auditFile |-> IF o.raised \/ f.auditFails THEN afile
                       ELSE LogInference(afile, row)]

\* analyze_property_condition: what it returns, the record it passes to
\* log_inference and the files as it leaves them
AnalyzePropertyCondition(c, afile, f, ts, avail) ==
    CHOOSE r \in {Audited(o, afile, f, ts) :
                    o \in {AnalysisOutcome(t, f, ts, avail) :
                             t \in {TryAnalysis(c, f, ts, avail)}}} : TRUE

NoInference ==
    [raised |-> FALSE, score |-> 0, tier |-> "none", served |-> None,
     attempted |-> None, logged |-> 0,
     row |-> InferenceRow(0, "", "", None, 0, FALSE), current |-> None]

----------------------------------------------------------------------------
(* The registry, one call at a time *)

Call(op, name, requested, outcome, version) ==
    [op |-> op, model |-> name, requested |-> requested,
     outcome |-> outcome, version |-> version]

NoCall == Call("none", "", None, "ok", None)

\* the processes that call the registry concurrently
Procs == {"p1", "p2"}

NoLocals ==
    [kind |-> "none", name |-> "", path |-> NoPath, requested |-> None,
     metadata |-> NoCatalog, version |-> None, ts |-> 0,
     before |-> AbsentFile, outcome |-> "none"]

DepCall(op, event_type, model, version, enabled, outcome, result) ==
    [op |-> op, event_type |-> event_type, model |-> model, version |-> version,
     enabled |-> enabled, outcome |-> outcome, result |-> result]

NoDepCall == DepCall("none", "", "", None, FALSE, "ok", None)

NoDepLocals ==
    [kind |-> "none", event_type |-> "", model |-> "", version |-> None,
     message |-> <<>>, metadata |-> <<>>, enabled |-> FALSE,
     fallback_version |-> None, status |-> DefaultStatus(0), ts |-> 0,
     entry |-> Deployment("", None, 0, "")]

\* nothing has been called yet
RegSeqIdle == nCalls = 0 /\ lastCall = NoCall
RegProcsIdle == rpc = [p \in Procs |-> "idle"] /\ rloc = [p \in Procs |-> NoLocals]
DepSeqIdle == nDep = 0 /\ depLast = NoDepCall /\ deployed = <<>>
DepProcsIdle == dpc = [p \in Procs |-> "idle"] /\ dloc = [p \in Procs |-> NoDepLocals]
AudIdle == auditFile = NoAuditFile /\ nAud = 0 /\ audLast = NoAudCall
AllWritable == [catalog |-> TRUE, status |-> TRUE]
NoService == [started |-> FALSE, failed |-> FALSE, sc |-> NewScorer]
SvcIdle == writable = AllWritable /\ scorer = NoService

DrfIdle ==
    /\ SvcIdle
    /\ feedbackFile = NoFeedbackFile
    /\ driftFile = NoDriftFile
    /\ nDrf = 0
    /\ drfLast = NoDrfCall

InfIdle == AudIdle /\ nInf = 0 /\ infLast = NoInference /\ DrfIdle

\* no file exists yet
NoFiles ==
    /\ metaFile = AbsentFile
    /\ archive = {}
    /\ metricsFile = NoMetricsFile
    /\ statusFile = NoStatusFile
    /\ eventsFile = NoEventsFile
    /\ now = 1
    /\ clock = 1

Init ==
    /\ NoFiles
    /\ versioning = TRUE
    /\ RegSeqIdle
    /\ RegProcsIdle
    /\ DepSeqIdle
    /\ DepProcsIdle
    /\ InfIdle

\* the clock passes to the next second
Tick ==
    /\ now < MaxClock
    /\ now' = now + 1
    /\ UNCHANGED <<metaFile, archive, metricsFile, regSeqVars, regProcVars, depVars>>

\* the arguments of the registrations made
DefaultPayload == [metrics |-> None, description |-> None]
CustomPayload == [metrics |-> SomeMetrics, description |-> CustomDescription]
RegisterArgs ==
    [name : {"condition_model"}, path : {"model.pth"},
     version : VersionInputs, payload : {DefaultPayload}]
    \cup [name : {"condition_model"}, path : {"model.pth"},
          version : {None, <<1, 9, 0>>}, payload : {CustomPayload}]
    \cup [name : {"valuation_model"}, path : {"model.pth"},
          version : {None, <<1, 9, 0>>, <<1, 10, 0>>}, payload : {DefaultPayload}]
    \cup [name : {"condition_model"}, path : {"missing.pth"},
          version : {None}, payload : {DefaultPayload}]

RegisterVersion(name, path, version, payload) ==
    /\ nCalls < MaxCalls
    /\ LET r == RegisterModelVersion(metaFile, archive, metricsFile, name, path,
                     version, payload.metrics, payload.description, now)
       IN  /\ metaFile' = r.file
           /\ archive' = r.archive
           /\ metricsFile' = r.metricsFile
           /\ lastCall' = Call("register", name, version, r.outcome, r.version)
    /\ nCalls' = nCalls + 1
    /\ UNCHANGED <<now, regProcVars, depVars>>

SetCurrentVersion(name, version) ==
    /\ nCalls < MaxCalls
    /\ LET r == SetCurrentVersionResult(metaFile, name, version, now)
       IN  /\ metaFile' = r.file
           /\ lastCall' = Call("set_current", name, version, r.outcome, None)
    /\ nCalls' = nCalls + 1
    /\ UNCHANGED <<archive, metricsFile, now, regProcVars, depVars>>

InitializeRegistry(initial_model_path) ==
    /\ nCalls < MaxCalls
    /\ LET r == InitializeModelRegistry(metaFile, archive, metricsFile,
                     initial_model_path, now)
       IN  /\ metaFile' = r.file
           /\ archive' = r.archive
           /\ metricsFile' = r.metricsFile
           /\ lastCall' = Call("initialize", "condition_model", None,
                                r.outcome, r.version)
    /\ nCalls' = nCalls + 1
    /\ UNCHANGED <<now, regProcVars, depVars>>

GetModelPath(name, version) ==
    /\ nCalls < MaxCalls
    /\ LET r == GetModelPathResult(metaFile, name, version, now)
       IN  /\ metaFile' = FileAfterLoad(metaFile, now)
           /\ lastCall' = Call("get_path", name, version, r.outcome, None)
    /\ nCalls' = nCalls + 1
    /\ UNCHANGED <<archive, metricsFile, now, regProcVars, depVars>>

GetCurrentVersion(name) ==
    /\ nCalls < MaxCalls
    /\ LET r == GetCurrentVersionResult(metaFile, name, now)
       IN  /\ metaFile' = FileAfterLoad(metaFile, now)
           /\ lastCall' = Call("get_current", name, None, r.outcome, r.version)
    /\ nCalls' = nCalls + 1
    /\ UNCHANGED <<archive, metricsFile, now, regProcVars, depVars>>

Next ==
    \/ \E a \in RegisterArgs :
          RegisterVersion(a.name, a.path, a.version, a.payload)
    \/ \E name \in ModelNames, version \in ExplicitVersions :
          SetCurrentVersion(name, version)
    \/ \E path \in {NoPath, "model.pth"} : InitializeRegistry(path)
    \/ \E name \in ModelNames : GetModelPath(name, None)
    \/ \E name \in ModelNames : GetCurrentVersion(name)
    \/ Tick

Spec == Init /\ [][Next]_vars

----------------------------------------------------------------------------
(* The registry called by concurrent processes.  A call is a sequence of   *)
(* steps, one per access to the file system; a process may stop (crash)    *)
(* between two of them.  No lock is taken anywhere in the module.          *)

\* open(file, 'w') truncates; json.dump and close write from offset 0.  When
\* another writer completed in between, the result is this writer's document
\* or, if it is the shorter one, this document followed by the rest of the
\* other (which json.load rejects).
DumpOutcomes(file, data) ==
    IF file.state = "ok" THEN {OkFile(data), PartialFile} ELSE {OkFile(data)}

\* the calls the processes make
RegProcArgs ==
    [kind : {"register"}, name : {"condition_model"}, path : {"model.pth"},
     version : {None, <<1, 9, 0>>}]
    \cup [kind : {"set_current"}, name : {"condition_model"}, path : {NoPath},
          version : {<<1, 9, 0>>}]

\* the catalog after condition_model 1.9.0 was registered in an empty registry
CatalogWithOneVersion ==
    RegisterModelVersion(AbsentFile, {}, NoMetricsFile, "condition_model",
                         "model.pth", <<1, 9, 0>>, None, None, 1)

InitRegProcs ==
    /\ \/ NoFiles
       \/ /\ metaFile = CatalogWithOneVersion.file
          /\ archive = CatalogWithOneVersion.archive
          /\ metricsFile = NoMetricsFile
          /\ statusFile = NoStatusFile
          /\ eventsFile = NoEventsFile
          /\ now = 1
          /\ clock = 1
    /\ versioning = TRUE
    /\ RegSeqIdle
    /\ RegProcsIdle
    /\ DepSeqIdle
    /\ DepProcsIdle
    /\ InfIdle

RegProcFrame == UNCHANGED <<regSeqVars, depVars>>

\* the call begins: the artifact is looked for, then the catalog file is read
RBegin(p, a) ==
    /\ rpc[p] = "idle"
    /\ LET loc == [NoLocals EXCEPT !.kind = a.kind, !.name = a.name,
                       !.path = a.path, !.requested = a.version,
                       !.before = metaFile, !.ts = now]
       IN  IF a.kind = "register" /\ ~PathExists(a.path)
           THEN /\ rpc' = [rpc EXCEPT ![p] = "raised"]
                /\ rloc' = [rloc EXCEPT ![p] =
                               [loc EXCEPT !.outcome = "FileNotFoundError"]]
           ELSE IF metaFile.state = "partial"
           THEN /\ rpc' = [rpc EXCEPT ![p] = "raised"]
                /\ rloc' = [rloc EXCEPT ![p] =
                               [loc EXCEPT !.outcome = "JSONDecodeError"]]
           ELSE IF metaFile.state = "absent"
           THEN /\ rpc' = [rpc EXCEPT ![p] = "create"]
                /\ rloc' = [rloc EXCEPT ![p] =
                               [loc EXCEPT !.metadata = InitialCatalog(now)]]
           ELSE /\ rpc' = [rpc EXCEPT ![p] = "loaded"]
                /\ rloc' = [rloc EXCEPT ![p] =
                               [loc EXCEPT !.metadata = metaFile.data]]
    /\ UNCHANGED <<regFiles, now>>
    /\ RegProcFrame

\* load_model_metadata found no file: it opens one for writing
RCreateOpen(p) ==
    /\ rpc[p] = "create"
    /\ metaFile' = PartialFile
    /\ rpc' = [rpc EXCEPT ![p] = "create_dump"]
    /\ UNCHANGED <<archive, metricsFile, now, rloc>>
    /\ RegProcFrame

\* ... and writes the initial catalog
RCreateDump(p) ==
    /\ rpc[p] = "create_dump"
    /\ metaFile' \in DumpOutcomes(metaFile, rloc[p].metadata)
    /\ rpc' = [rpc EXCEPT ![p] = "loaded"]
    /\ UNCHANGED <<archive, metricsFile, now, rloc>>
    /\ RegProcFrame

\* register_model_version from "Initialize model entry" to the metrics log
RRegister(p) ==
    /\ rpc[p] = "loaded"
    /\ rloc[p].kind = "register"
    /\ LET loc == rloc[p]
           metadata1 == EnsureModelEntry(loc.metadata, loc.name)
           current == metadata1.models[loc.name].current_version
       IN  IF loc.requested = None /\ ~Unpacks3(current)
           THEN /\ rpc' = [rpc EXCEPT ![p] = "raised"]
                /\ rloc' = [rloc EXCEPT ![p].outcome = "ValueError"]
                /\ UNCHANGED archive
           ELSE
           LET version == ChosenVersion(metadata1, loc.name, loc.requested)
               rec == VersionRecord(loc.name, version, now, None, None)
               metadata2 == WithVersionRecord(metadata1, loc.name, version, rec)
           IN  /\ archive' = archive \cup {ArchivedPath(loc.name, version, now)}
               /\ IF ~AllNumeric(current) \/ ~AllNumeric(version)
                  THEN /\ rpc' = [rpc EXCEPT ![p] = "raised"]
                       /\ rloc' = [rloc EXCEPT ![p].outcome = "ValueError"]
                  ELSE /\ rpc' = [rpc EXCEPT ![p] = "save"]
                       /\ rloc' = [rloc EXCEPT ![p].version = version,
                                     ![p].metadata =
                                        WithCurrentIfNewer(metadata2, loc.name, version)]
    /\ UNCHANGED <<metaFile, metricsFile, now>>
    /\ RegProcFrame

\* set_current_version between load and save
RSetCurrent(p) ==
    /\ rpc[p] = "loaded"
    /\ rloc[p].kind = "set_current"
    /\ LET loc == rloc[p]
       IN  IF \/ loc.name \notin DOMAIN loc.metadata.models
              \/ loc.requested \notin DOMAIN loc.metadata.models[loc.name].versions
           THEN /\ rpc' = [rpc EXCEPT ![p] = "raised"]
                /\ rloc' = [rloc EXCEPT ![p].outcome = "ValueError"]
           ELSE /\ rpc' = [rpc EXCEPT ![p] = "save"]
                /\ rloc' = [rloc EXCEPT ![p].metadata =
                              WithEntry(loc.metadata, loc.name,
                                  [loc.metadata.models[loc.name]
                                      EXCEPT !.current_version = loc.requested])]
    /\ UNCHANGED <<regFiles, now>>
    /\ RegProcFrame

\* save_model_metadata opens the file for writing
RSaveOpen(p) ==
    /\ rpc[p] = "save"
    /\ metaFile' = PartialFile
    /\ rpc' = [rpc EXCEPT ![p] = "save_dump"]
    /\ rloc' = [rloc EXCEPT ![p].metadata.last_updated = now]
    /\ UNCHANGED <<archive, metricsFile, now>>
    /\ RegProcFrame

\* ... and writes the catalog; the call returns
RSaveDump(p) ==
    /\ rpc[p] = "save_dump"
    /\ metaFile' \in DumpOutcomes(metaFile, rloc[p].metadata)
    /\ rpc' = [rpc EXCEPT ![p] = "done"]
    /\ rloc' = [rloc EXCEPT ![p].outcome = "ok"]
    /\ UNCHANGED <<archive, metricsFile, now>>
    /\ RegProcFrame

\* the process stops in the middle of its call
RCrash(p) ==
    /\ rpc[p] \in {"create", "create_dump", "loaded", "save", "save_dump"}
    /\ rpc' = [rpc EXCEPT ![p] = "crashed"]
    /\ UNCHANGED <<regFiles, now, rloc>>
    /\ RegProcFrame

NextRegProcs ==
    \/ \E p \in Procs, a \in RegProcArgs : RBegin(p, a)
    \/ \E p \in Procs : RCreateOpen(p)
    \/ \E p \in Procs : RCreateDump(p)
    \/ \E p \in Procs : RRegister(p)
    \/ \E p \in Procs : RSetCurrent(p)
    \/ \E p \in Procs : RSaveOpen(p)
    \/ \E p \in Procs : RSaveDump(p)
    \/ \E p \in Procs : RCrash(p)
    \/ Tick

SpecRegProcs == InitRegProcs /\ [][NextRegProcs]_vars

\* C6: when a process stopped in the middle of a mutating registry operation
\* (and no other process has called the registry), the catalog file holds the
\* complete catalog from before the operation or the complete catalog the
\* operation was writing.
C6_CrashLeavesCompleteCatalog ==
    \A p \in Procs :
        (rpc[p] = "crashed" /\ \A q \in Procs \ {p} : rpc[q] = "idle") =>
            /\ metaFile.state # "partial"
            /\ LoadedMetadata(metaFile, now).models
                  \in {LoadedMetadata(rloc[p].before, now).models,
                       rloc[p].metadata.models}

\* C7: two concurrent registrations of the same model that both omit the
\* version return distinct versions, and both records are in the catalog.
C7_ConcurrentAutoVersionsDistinct ==
    \A p, q \in Procs :
        (/\ p # q
         /\ rpc[p] = "done" /\ rpc[q] = "done"
         /\ rloc[p].kind = "register" /\ rloc[q].kind = "register"
         /\ rloc[p].requested = None /\ rloc[q].requested = None
         /\ rloc[p].name = rloc[q].name) =>
            /\ rloc[p].version # rloc[q].version
            /\ metaFile.state = "ok"
            /\ {rloc[p].version, rloc[q].version}
                  \subseteq DOMAIN metaFile.data.models[rloc[p].name].versions

----------------------------------------------------------------------------
(* The tracker, one call at a time *)

MaxDepCalls == 4

InitDeploy ==
    /\ NoFiles
    /\ versioning \in BOOLEAN
    /\ RegSeqIdle
    /\ RegProcsIdle
    /\ DepSeqIdle
    /\ DepProcsIdle
    /\ InfIdle

\* a Deploy: a deployment or a rollback event
IsDeploy(event_type) == event_type \in {EVENT_DEPLOYMENT, EVENT_ROLLBACK}

\* log_deployment_event
LogEvent(event_type, model, version) ==
    /\ nDep < MaxDepCalls
    /\ LET r == LogDeploymentEvent(statusFile, eventsFile, event_type, model,
                    version, <<"message">>, <<>>, clock)
       IN  /\ statusFile' = r.statusFile
           /\ eventsFile' = r.eventsFile
    /\ clock' = clock + 1
    /\ nDep' = nDep + 1
    /\ depLast' = DepCall("log_event", event_type, model, version, FALSE, "ok", None)
    /\ deployed' = IF IsDeploy(event_type)
                   THEN Append(deployed, Deployment(model, version, clock, "active"))
                   ELSE deployed
    /\ UNCHANGED <<regFiles, now, versioning, infVars, regSeqVars, regProcVars, depProcVars>>

\* configure_fallback
ConfigureFallback(enabled, fallback_version) ==
    /\ nDep < MaxDepCalls
    /\ LET r == ConfigureFallbackResult(statusFile, eventsFile, metaFile,
                    versioning, enabled, fallback_version, clock)
       IN  /\ statusFile' = r.statusFile
           /\ eventsFile' = r.eventsFile
           /\ metaFile' = r.metaFile
           /\ depLast' = DepCall("configure_fallback", "", "", fallback_version,
                                 enabled, r.outcome, None)
    /\ clock' = clock + 1
    /\ nDep' = nDep + 1
    /\ UNCHANGED <<archive, metricsFile, now, versioning, infVars, deployed,
                   regSeqVars, regProcVars, depProcVars>>

\* get_fallback_model_version
GetFallbackModelVersion ==
    /\ nDep < MaxDepCalls
    /\ statusFile' = StatusFileAfterLoad(statusFile, clock)
    /\ depLast' = DepCall("get_fallback", "", "", None, FALSE, "ok",
                          FallbackModelVersion(LoadedStatus(statusFile, clock)))
    /\ clock' = clock + 1
    /\ nDep' = nDep + 1
    /\ UNCHANGED <<regFiles, eventsFile, now, versioning, infVars, deployed,
                   regSeqVars, regProcVars, depProcVars>>

\* get_current_deployment_info
GetCurrentDeploymentInfo ==
    /\ nDep < MaxDepCalls
    /\ statusFile' = StatusFileAfterLoad(statusFile, clock)
    /\ depLast' = DepCall("get_current", "", "", None, FALSE, "ok",
                     LoadedStatus(statusFile, clock).current_deployment.version)
    /\ clock' = clock + 1
    /\ nDep' = nDep + 1
    /\ UNCHANGED <<regFiles, eventsFile, now, versioning, infVars, deployed,
                   regSeqVars, regProcVars, depProcVars>>

DeployedVersions == {<<1, 0, 0>>, <<2, 0, 0>>}

NextDeploy ==
    \/ \E event_type \in EventTypes, version \in DeployedVersions :
          /\ ~IsDeploy(event_type) => version = <<1, 0, 0>>
          /\ LogEvent(event_type, "condition_model", version)
    \/ \E enabled \in BOOLEAN, version \in DeployedVersions \cup {None} :
          ConfigureFallback(enabled, version)
    \/ GetFallbackModelVersion
    \/ GetCurrentDeploymentInfo

SpecDeploy == InitDeploy /\ [][NextDeploy]_vars

----------------------------------------------------------------------------
(* The tracker under a long run of deployments *)

MaxDeploys == 15

\* log_deployment_event with a deployment or a rollback event
Deploy(event_type, model, version) ==
    /\ Len(deployed) < MaxDeploys
    /\ LET r == LogDeploymentEvent(statusFile, eventsFile, event_type, model,
                    version, <<"message">>, <<>>, clock)
       IN  /\ statusFile' = r.statusFile
           /\ eventsFile' = r.eventsFile
    /\ clock' = clock + 1
    /\ nDep' = nDep + 1
    /\ depLast' = DepCall("log_event", event_type, model, version, FALSE, "ok", None)
    /\ deployed' = Append(deployed, Deployment(model, version, clock, "active"))
    /\ UNCHANGED <<regFiles, now, versioning, infVars, regSeqVars, regProcVars, depProcVars>>

\* a new version is deployed, or the old one is rolled back to
NextDeployLong ==
    \/ Deploy(EVENT_DEPLOYMENT, "condition_model", <<2, 0, 0>>)
    \/ Deploy(EVENT_ROLLBACK, "condition_model", <<1, 0, 0>>)

SpecDeployLong == InitDeploy /\ [][NextDeployLong]_vars

----------------------------------------------------------------------------
(* The inference service, one call at a time, started on a registry and a  *)
(* tracker as earlier calls have left them.                                *)

\* the registry after 1.9.0 and then 1.10.0 were registered
RegistryWithTwoVersions ==
    LET r1 == RegisterModelVersion(AbsentFile, {}, NoMetricsFile,
                  "condition_model", "model.pth", <<1, 9, 0>>, None, None, 1)
    IN  RegisterModelVersion(r1.file, r1.archive, r1.metricsFile,
            "condition_model", "model.pth", <<1, 10, 0>>, None, None, 1)

\* the tracker after configure_fallback(True, "1.9.0")
TrackerWithFallback(mfile) ==
    ConfigureFallbackResult(NoStatusFile, NoEventsFile, mfile, TRUE, TRUE,
                            <<1, 9, 0>>, 1)

InitInfer ==
    /\ now = 1
    /\ versioning \in BOOLEAN
    /\ \/ /\ metaFile = AbsentFile
          /\ archive = {}
       \/ /\ metaFile = RegistryWithTwoVersions.file
          /\ archive = RegistryWithTwoVersions.archive
    /\ metricsFile = NoMetricsFile
    /\ \/ /\ statusFile = NoStatusFile
          /\ eventsFile = NoEventsFile
          /\ clock = 1
       \/ /\ metaFile.state = "ok"
          /\ statusFile = TrackerWithFallback(metaFile).statusFile
          /\ eventsFile = TrackerWithFallback(metaFile).eventsFile
          /\ clock = 2
    /\ RegSeqIdle
    /\ RegProcsIdle
    /\ DepSeqIdle
    /\ DepProcsIdle
    /\ InfIdle

\* what the models and the heuristic of a call put out
Outputs ==
    {[raw |-> 123, heuristic |-> 40, random |-> 250],
     [raw |-> 560, heuristic |-> 300, random |-> 350]}

\* what can fail in a call
Failures ==
    [primaryLoadFails : BOOLEAN, fallbackLoadFails : BOOLEAN,
     primaryExecFails : BOOLEAN, fallbackExecFails : BOOLEAN,
     auditFails : BOOLEAN, default : {"absent", "corrupt", "ok"},
     eventFails : SUBSET (1 .. MaxEventFail)]

\* analyze_property_condition(image_path)
Analyze(fails, out) ==
    /\ nInf < MaxInfer
    /\ \E r \in {AnalyzePropertyCondition(
                     Context(metaFile, archive, metricsFile, statusFile,
                             eventsFile, clock),
                     auditFile,
                     [x \in DOMAIN fails \cup DOMAIN out |->
                         IF x \in DOMAIN fails THEN fails[x] ELSE out[x]],
                     now, versioning)} :
           /\ metaFile' = r.c.meta
           /\ archive' = r.c.arch
           /\ metricsFile' = r.c.mfile
           /\ statusFile' = r.c.sfile
           /\ eventsFile' = r.c.efile
           /\ clock' = r.c.clk
           /\ auditFile' = r.auditFile
           /\ infLast' = [raised |-> r.raised, score |-> r.score, tier |-> r.tier,
                          served |-> r.served, attempted |-> r.attempted,
                          logged |-> r.logged, row |-> r.row,
                          current |-> LoadedStatus(statusFile, clock)
                                         .current_deployment.version]
    /\ nInf' = nInf + 1
    /\ UNCHANGED <<now, versioning, regSeqVars, regProcVars, depSeqVars,
                   depProcVars, nAud, audLast, drfVars>>

NextInfer == \E fails \in Failures, out \in Outputs : Analyze(fails, out)

SpecInfer == InitInfer /\ [][NextInfer]_vars

----------------------------------------------------------------------------
(* The registry, one call at a time, started on a catalog that already     *)
(* holds the versions 1.9.0 and 1.10.0 of condition_model                  *)

InitRegistered ==
    /\ metaFile = RegistryWithTwoVersions.file
    /\ archive = RegistryWithTwoVersions.archive
    /\ metricsFile = NoMetricsFile
    /\ statusFile = NoStatusFile
    /\ eventsFile = NoEventsFile
    /\ now = 1
    /\ clock = 1
    /\ versioning = TRUE
    /\ RegSeqIdle
    /\ RegProcsIdle
    /\ DepSeqIdle
    /\ DepProcsIdle
    /\ InfIdle

SpecRegistered == InitRegistered /\ [][Next]_vars

----------------------------------------------------------------------------
(* A ConditionScorer that lives on: it is constructed once and predicts    *)
(* later, and the tracker is called in between.                            *)

SvcFrame ==
    UNCHANGED <<now, versioning, regSeqVars, regProcVars, depSeqVars,
                depProcVars, auditFile, nAud, audLast, feedbackFile, driftFile,
                nDrf, drfLast, writable>>

\* scorer = ConditionScorer()
StartService(fails) ==
    /\ ~scorer.started
    /\ ~scorer.failed
    /\ \E r \in {ScorerInit(Context(metaFile, archive, metricsFile, statusFile,
                                     eventsFile, clock),
                             fails, now, versioning)} :
           /\ metaFile' = r.c.meta
           /\ archive' = r.c.arch
           /\ metricsFile' = r.c.mfile
           /\ statusFile' = r.c.sfile
           /\ eventsFile' = r.c.efile
           /\ clock' = r.c.clk
           /\ scorer' = [started |-> ~r.raised, failed |-> r.raised, sc |-> r.sc]
    /\ UNCHANGED <<nInf, infLast>>
    /\ SvcFrame

\* scorer.predict_condition(image_path)
Predict(fails, out) ==
    /\ scorer.started
    /\ nInf < MaxInfer
    /\ \E r \in {PredictCondition(scorer.sc,
                     Context(metaFile, archive, metricsFile, statusFile,
                             eventsFile, clock),
                     [x \in DOMAIN fails \cup DOMAIN out |->
                         IF x \in DOMAIN fails THEN fails[x] ELSE out[x]])} :
           /\ metaFile' = r.c.meta
           /\ archive' = r.c.arch
           /\ metricsFile' = r.c.mfile
           /\ statusFile' = r.c.sfile
           /\ eventsFile' = r.c.efile
           /\ clock' = r.c.clk
           /\ infLast' = [NoInference EXCEPT
                             !.raised = r.raised, !.score = r.score,
                             !.tier = r.tier, !.served = r.served,
                             !.attempted = scorer.sc.attempted,
                             !.current = LoadedStatus(statusFile, clock)
                                            .current_deployment.version]
    /\ nInf' = nInf + 1
    /\ UNCHANGED scorer
    /\ SvcFrame

\* what can fail while the scorer is made, and while it predicts
StartFailures ==
    {f \in Failures : ~f.primaryExecFails /\ ~f.fallbackExecFails /\ ~f.auditFails}
PredictFailures ==
    {f \in Failures : /\ ~f.primaryLoadFails /\ ~f.fallbackLoadFails
                      /\ ~f.auditFails /\ f.default = "ok"}

\* a deployment logged between the start and the prediction
DeployMeanwhile(version) ==
    /\ scorer.started
    /\ nInf = 0
    /\ LogEvent(EVENT_DEPLOYMENT, "condition_model", version)

\* a configure_fallback made between the start and the prediction
ConfigureFallbackMeanwhile(enabled, fallback_version) ==
    /\ scorer.started
    /\ nInf = 0
    /\ ConfigureFallback(enabled, fallback_version)

NextService ==
    \/ \E fails \in StartFailures : StartService(fails)
    \/ \E fails \in PredictFailures, out \in Outputs : Predict(fails, out)
    \/ DeployMeanwhile(<<1, 9, 0>>)
    \/ \E a \in {<<TRUE, <<1, 10, 0>>>>, <<FALSE, None>>} :
          ConfigureFallbackMeanwhile(a[1], a[2])

SpecService == InitInfer /\ [][NextService]_vars

----------------------------------------------------------------------------
(* The inference audit log (backend/audit_inference.py), one call at a time *)

InitAudit ==
    /\ NoFiles
    /\ versioning = TRUE
    /\ RegSeqIdle
    /\ RegProcsIdle
    /\ DepSeqIdle
    /\ DepProcsIdle
    /\ InfIdle

\* the scores and the limits of the calls made
AudScores == {195, 200, 500, 520}
AudLimits == {None, <<1>>, <<2>>}

AudFrame == UNCHANGED <<ctlVars, nInf, infLast, drfVars>>

\* log_inference(filename, model_name, model_version, score, ...)
ALogInference(score) ==
    /\ nAud < MaxAudCalls
    /\ auditFile' = LogInference(auditFile,
                        InferenceRow(now, "photo.jpg", "condition_model",
                                     <<1, 0, 0>>, score, FALSE))
    /\ audLast' = AudCall("log_inference", None, <<>>, NoStats)
    /\ nAud' = nAud + 1
    /\ AudFrame

\* get_inferences(limit)
AGetInferences(limit) ==
    /\ nAud < MaxAudCalls
    /\ audLast' = AudCall("get_inferences", limit,
                          GetInferencesOrder(auditFile, limit), NoStats)
    /\ nAud' = nAud + 1
    /\ UNCHANGED auditFile
    /\ AudFrame

\* get_inference_stats(limit)
AGetInferenceStats(limit) ==
    /\ nAud < MaxAudCalls
    /\ audLast' = AudCall("get_inference_stats", limit,
                          GetInferencesOrder(auditFile, limit),
                          GetInferenceStats(auditFile, limit))
    /\ nAud' = nAud + 1
    /\ UNCHANGED auditFile
    /\ AudFrame

\* clear_audit_log(backup)
AClearAuditLog(backup) ==
    /\ nAud < MaxAudCalls
    /\ auditFile' = ClearAuditLog(auditFile, backup, now)
    /\ audLast' = AudCall("clear_audit_log", None, <<>>, NoStats)
    /\ nAud' = nAud + 1
    /\ AudFrame

NextAudit ==
    \/ Tick
    \/ \E score \in AudScores : ALogInference(score)
    \/ \E limit \in AudLimits : AGetInferences(limit)
    \/ \E limit \in AudLimits : AGetInferenceStats(limit)
    \/ \E backup \in BOOLEAN : AClearAuditLog(backup)

SpecAudit == InitAudit /\ [][NextAudit]_vars

----------------------------------------------------------------------------
(* The drift monitor, one call at a time *)

\* ten samples of one day and one version: the model said 3.4, the user 4.0
TenSamples ==
    [exists |-> TRUE,
     rows |-> [i \in 1 .. 10 |->
                 [timestamp |-> 1, ai_score |-> 340, user_score |-> 400,
                  difference |-> 60, model_version |-> <<1, 0, 0>>]]]

InitDrift ==
    /\ NoFiles
    /\ versioning = TRUE
    /\ RegSeqIdle
    /\ RegProcsIdle
    /\ DepSeqIdle
    /\ DepProcsIdle
    /\ AudIdle
    /\ nInf = 0
    /\ infLast = NoInference
    /\ SvcIdle
    /\ feedbackFile \in {NoFeedbackFile, TenSamples}
    /\ driftFile = NoDriftFile
    /\ nDrf = 0
    /\ drfLast = NoDrfCall

\* the feedback given: <<ai_score, user_score>>
FeedbackScores ==
    {<<340, 400>>, <<340, 350>>, <<350, 340>>, <<340, 351>>, <<400, 389>>}
FeedbackVersions == {<<1, 0, 0>>, <<2, 0, 0>>}

\* what can fail in a calculate_daily_drift call
DrfFailures == [readFails : BOOLEAN, write : {"ok", "open", "partial"}]

\* the windows asked for
TrendDays == {0, 30}

DrfFrame == UNCHANGED <<ctlVars, auditFile, nAud, audLast, nInf, infLast, svcVars>>

\* log_feedback(filename, ai_score, user_score, model_version)
FLogFeedback(scores, model_version) ==
    /\ nDrf < MaxDrfCalls
    /\ feedbackFile' = LogFeedback(EnsureFeedbackDir(feedbackFile), scores[1],
                                   scores[2], model_version, now)
    /\ drfLast' = DrfCall("log_feedback", TRUE, {})
    /\ nDrf' = nDrf + 1
    /\ UNCHANGED driftFile
    /\ DrfFrame

\* calculate_daily_drift()
FCalculateDailyDrift(f) ==
    /\ nDrf < MaxDrfCalls
    /\ \E r \in {CalculateDailyDrift(feedbackFile, driftFile, f)} :
           /\ feedbackFile' = r.feedbackFile
           /\ driftFile' = r.driftFile
           /\ drfLast' = DrfCall("calculate_daily_drift", r.ok, {})
    /\ nDrf' = nDrf + 1
    /\ DrfFrame

\* get_drift_trends(days)
FGetDriftTrends(days) ==
    /\ nDrf < MaxDrfCalls
    /\ \E r \in {GetDriftTrends(driftFile, days, DateOf(now))} :
           /\ driftFile' = r.driftFile
           /\ drfLast' = DrfCall("get_drift_trends", ~r.error, r.records)
    /\ nDrf' = nDrf + 1
    /\ UNCHANGED feedbackFile
    /\ DrfFrame

NextDrift ==
    \/ Tick
    \/ \E scores \in FeedbackScores, v \in FeedbackVersions : FLogFeedback(scores, v)
    \/ \E f \in DrfFailures : FCalculateDailyDrift(f)
    \/ \E days \in TrendDays : FGetDriftTrends(days)

SpecDrift == InitDrift /\ [][NextDrift]_vars

----------------------------------------------------------------------------
(* The registry and the tracker with files that may not be writable *)

MaxFaultCalls == 3

InitFaults ==
    /\ NoFiles
    /\ versioning = TRUE
    /\ RegSeqIdle
    /\ RegProcsIdle
    /\ DepSeqIdle
    /\ DepProcsIdle
    /\ AudIdle
    /\ nInf = 0
    /\ infLast = NoInference
    /\ feedbackFile = NoFeedbackFile
    /\ driftFile = NoDriftFile
    /\ nDrf = 0
    /\ drfLast = NoDrfCall
    /\ writable \in [catalog : BOOLEAN, status : BOOLEAN]
    /\ scorer = NoService

FaultFrame ==
    UNCHANGED <<now, versioning, regProcVars, depProcVars, deployed, auditFile,
                nAud, audLast, nInf, infLast, feedbackFile, driftFile, nDrf,
                drfLast, scorer>>

\* the permissions of the files change
SetWritable(w) ==
    /\ writable' = w
    /\ writable' # writable
    /\ UNCHANGED <<regFiles, depFiles, clock, regSeqVars, nDep, depLast>>
    /\ FaultFrame

\* register_model_version(name, path, version)
WRegisterVersion(version) ==
    /\ nCalls + nDep < MaxFaultCalls
    /\ \E r \in {RegisterModelVersionOn(metaFile, archive, metricsFile,
                     "condition_model", "model.pth", version, writable.catalog,
                     now)} :
           /\ metaFile' = r.file
           /\ archive' = r.archive
           /\ metricsFile' = r.metricsFile
           /\ lastCall' = Call("register", "condition_model", version, r.outcome,
                               r.version)
    /\ nCalls' = nCalls + 1
    /\ UNCHANGED <<depFiles, clock, nDep, depLast, writable>>
    /\ FaultFrame

\* set_current_version(name, version)
WSetCurrentVersion(version) ==
    /\ nCalls + nDep < MaxFaultCalls
    /\ \E r \in {SetCurrentVersionOn(metaFile, "condition_model", version,
                                      writable.catalog, now)} :
           /\ metaFile' = r.file
           /\ lastCall' = Call("set_current", "condition_model", version,
                               r.outcome, None)
    /\ nCalls' = nCalls + 1
    /\ UNCHANGED <<archive, metricsFile, depFiles, clock, nDep, depLast, writable>>
    /\ FaultFrame

\* log_deployment_event(event_type, model, version, ...)
WLogEvent(event_type, version) ==
    /\ nCalls + nDep < MaxFaultCalls
    /\ \E r \in {LogDeploymentEventOn(statusFile, eventsFile, event_type,
                     "condition_model", version, writable.status, clock)} :
           /\ statusFile' = r.statusFile
           /\ eventsFile' = r.eventsFile
           /\ depLast' = DepCall("log_event", event_type, "condition_model",
                                 version, FALSE, r.outcome, None)
    /\ clock' = clock + 1
    /\ nDep' = nDep + 1
    /\ UNCHANGED <<regFiles, regSeqVars, writable>>
    /\ FaultFrame

\* configure_fallback(enabled)
WConfigureFallback(enabled) ==
    /\ nCalls + nDep < MaxFaultCalls
    /\ \E r \in {ConfigureFallbackOn(statusFile, eventsFile, enabled,
                                      writable.status, clock)} :
           /\ statusFile' = r.statusFile
           /\ eventsFile' = r.eventsFile
           /\ depLast' = DepCall("configure_fallback", "", "", None, enabled,
                                 r.outcome, None)
    /\ clock' = clock + 1
    /\ nDep' = nDep + 1
    /\ UNCHANGED <<regFiles, regSeqVars, writable>>
    /\ FaultFrame

NextFaults ==
    \/ \E w \in [catalog : BOOLEAN, status : BOOLEAN] : SetWritable(w)
    \/ \E version \in {None, <<1, 0, 0>>, <<2, 0, 0>>} : WRegisterVersion(version)
    \/ \E version \in {<<1, 0, 0>>, <<2, 0, 0>>} : WSetCurrentVersion(version)
    \/ \E event_type \in {EVENT_DEPLOYMENT, EVENT_ERROR},
          version \in {<<1, 0, 0>>, <<2, 0, 0>>} : WLogEvent(event_type, version)
    \/ \E enabled \in BOOLEAN : WConfigureFallback(enabled)

SpecFaults == InitFaults /\ [][NextFaults]_vars

----------------------------------------------------------------------------
(* Claims about the registry, checked under Spec *)

\* the catalog a call finds: the persisted one, or the one created on first load
CatalogFound == LoadedMetadata(metaFile, now)

\* the greatest of a non-empty set of versions, parts compared as numbers
GreatestVersion(vs) == CHOOSE v \in vs : \A w \in vs : w = v \/ ListGreater(v, w)

\* the step is a call of the registry: it has a call's outcome in lastCall'
IsCall(op) == nCalls' = nCalls + 1 /\ lastCall'.op = op

\* C1: in every reachable state of the persisted catalog, each model's
\* current_version is a key of that model's versions.
C1_CurrentVersionIsRegistered ==
    metaFile.state = "ok" =>
        \A n \in DOMAIN metaFile.data.models :
            metaFile.data.models[n].current_version
                \in DOMAIN metaFile.data.models[n].versions

\* C2: a registration with an explicit version, made when the model has no
\* version yet or has its greatest version current, leaves the greatest
\* registered version current; and a registration with a version that is not
\* greater than the current one leaves the current version as it was.
C2_CurrentIsGreatestRegistered ==
    [][(IsCall("register") /\ lastCall'.requested # None
            /\ lastCall'.outcome = "ok") =>
        LET n == lastCall'.model
            before == EnsureModelEntry(CatalogFound, n).models[n]
            after == metaFile'.data.models[n]
        IN  /\ (before.versions = NoVersions
                  \/ before.current_version = GreatestVersion(DOMAIN before.versions))
               => after.current_version = GreatestVersion(DOMAIN after.versions)
            /\ ~ListGreater(lastCall'.requested, before.current_version)
               => after.current_version = before.current_version
      ]_vars

\* C3: a registration without a version, of a model whose current version is
\* major.minor.patch, registers and returns major.(minor+1).0.
C3_AutoVersionBumpsMinor ==
    [][(IsCall("register") /\ lastCall'.requested = None
            /\ lastCall'.outcome # "FileNotFoundError") =>
        LET n == lastCall'.model
            cur == EnsureModelEntry(CatalogFound, n).models[n].current_version
            expected == <<cur[1], cur[2] + 1, 0>>
        IN  /\ lastCall'.outcome = "ok"
            /\ lastCall'.version = expected
            /\ metaFile'.state = "ok"
            /\ expected \in DOMAIN metaFile'.data.models[n].versions
            /\ expected[1] = cur[1]
      ]_vars

\* C3's case: 1.9.0 was current and a registration without a version
\* returned 1.10.0
C3_Witness ==
    /\ lastCall.op = "register" /\ lastCall.requested = None
    /\ lastCall.outcome = "ok" /\ lastCall.version = <<1, 10, 0>>
    /\ <<1, 9, 0>> \in DOMAIN metaFile.data.models[lastCall.model].versions

\* C4: a version's record, once in the catalog, is the same after every
\* later registry operation.
C4_VersionRecordsNeverChange ==
    [][(metaFile.state = "ok" /\ metaFile'.state = "ok") =>
        \A n \in DOMAIN metaFile.data.models :
            \A v \in DOMAIN metaFile.data.models[n].versions :
                /\ n \in DOMAIN metaFile'.data.models
                /\ v \in DOMAIN metaFile'.data.models[n].versions
                /\ metaFile'.data.models[n].versions[v]
                       = metaFile.data.models[n].versions[v]
      ]_vars

\* C5: a RegisterVersion or SetCurrentVersion call that fails leaves the
\* catalog's models and the set of archived artifacts as they were.
C5_FailedCallChangesNothing ==
    [][((IsCall("register") \/ IsCall("set_current"))
            /\ lastCall'.outcome # "ok") =>
        /\ LoadedMetadata(metaFile', now').models = CatalogFound.models
        /\ archive' = archive
      ]_vars

----------------------------------------------------------------------------
(* The tracker called by concurrent processes, one step per access to the  *)
(* file system.  No lock is taken anywhere in the module.                  *)

\* the status file as _save_status may leave it (see DumpOutcomes)
StatusDumpOutcomes(file, status) ==
    IF file.state = "ok"
    THEN {[state |-> "ok", data |-> status], PartialStatusFile}
    ELSE {[state |-> "ok", data |-> status]}

\* the files after one deployment of 1.0.0 was logged in an empty directory
FilesAfterOneDeployment ==
    LogDeploymentEvent(NoStatusFile, NoEventsFile, EVENT_DEPLOYMENT,
                       "condition_model", <<1, 0, 0>>, <<"message">>, <<>>, 1)

InitDepProcs ==
    /\ metaFile = AbsentFile
    /\ archive = {}
    /\ metricsFile = NoMetricsFile
    /\ now = 1
    /\ \/ /\ statusFile = NoStatusFile
          /\ eventsFile = NoEventsFile
          /\ clock = 1
       \/ /\ statusFile = FilesAfterOneDeployment.statusFile
          /\ eventsFile = FilesAfterOneDeployment.eventsFile
          /\ clock = 2
    /\ versioning = TRUE
    /\ RegSeqIdle
    /\ RegProcsIdle
    /\ DepSeqIdle
    /\ DepProcsIdle
    /\ InfIdle

DepProcFrame ==
    UNCHANGED <<regFiles, now, regSeqVars, regProcVars, versioning, infVars, depSeqVars>>

\* the functions that construct a DeploymentStatus() only to read from it
ReadOps == {"get_fallback_model_version", "get_current_deployment_info"}

\* where a caller of DeploymentStatus() goes on: update_deployment in
\* log_deployment_event, set_fallback_config in configure_fallback; a reader
\* returns what the loaded status holds
AfterLoad(kind) == IF kind = "configure_fallback" THEN "set_fallback" ELSE IF kind \in ReadOps THEN "done" ELSE "update"

\* log_deployment_event begins: the time is read and the event file looked for
DBegin(p, event_type, model, version) ==
    /\ dpc[p] = "idle"
    /\ dloc' = [dloc EXCEPT ![p] =
                   [NoDepLocals EXCEPT !.kind = "log_event",
                       !.event_type = event_type, !.model = model,
                       !.version = version, !.message = <<"message">>,
                       !.ts = clock]]
    /\ dpc' = [dpc EXCEPT ![p] = IF eventsFile.exists THEN "append" ELSE "header"]
    /\ clock' = clock + 1
    /\ UNCHANGED depFiles
    /\ DepProcFrame

\* the event file is created (open(..., 'w')) with its header row
DHeader(p) ==
    /\ dpc[p] = "header"
    /\ eventsFile' = [exists |-> TRUE, rows |-> <<>>]
    /\ dpc' = [dpc EXCEPT ![p] = "append"]
    /\ UNCHANGED <<statusFile, clock, dloc>>
    /\ DepProcFrame

\* the event row is appended
DAppend(p) ==
    /\ dpc[p] = "append"
    /\ eventsFile' = EventsAfterAppend(eventsFile,
                        EventRow(dloc[p].ts, dloc[p].event_type, dloc[p].model,
                                 dloc[p].version, dloc[p].message,
                                 dloc[p].metadata))
    /\ dpc' = [dpc EXCEPT ![p] =
                  IF UpdatesDeployment(dloc[p].event_type) THEN "load" ELSE "done"]
    /\ UNCHANGED <<statusFile, clock, dloc>>
    /\ DepProcFrame

\* DeploymentStatus(): _load_status reads the status file
DLoad(p) ==
    /\ dpc[p] = "load"
    /\ IF statusFile.state = "ok"
       THEN /\ dloc' = [dloc EXCEPT ![p].status = statusFile.data]
            /\ dpc' = [dpc EXCEPT ![p] = AfterLoad(dloc[p].kind)]
            /\ UNCHANGED clock
       ELSE /\ dloc' = [dloc EXCEPT ![p].status = DefaultStatus(clock)]
            /\ dpc' = [dpc EXCEPT ![p] = "default_open"]
            /\ clock' = clock + 1
    /\ UNCHANGED depFiles
    /\ DepProcFrame

\* _create_default_status saves: the file is opened for writing
DDefaultOpen(p) ==
    /\ dpc[p] = "default_open"
    /\ statusFile' = PartialStatusFile
    /\ dpc' = [dpc EXCEPT ![p] = "default_dump"]
    /\ UNCHANGED <<eventsFile, clock, dloc>>
    /\ DepProcFrame

\* ... and written
DDefaultDump(p) ==
    /\ dpc[p] = "default_dump"
    /\ statusFile' \in StatusDumpOutcomes(statusFile, dloc[p].status)
    /\ dpc' = [dpc EXCEPT ![p] = AfterLoad(dloc[p].kind)]
    /\ UNCHANGED <<eventsFile, clock, dloc>>
    /\ DepProcFrame

\* update_deployment changes the loaded status; _save_status opens the file
DUpdate(p) ==
    /\ dpc[p] = "update"
    /\ LET updated == UpdateDeployment(dloc[p].status, dloc[p].model,
                          dloc[p].version, "active", clock)
       IN  dloc' = [dloc EXCEPT ![p].status = [updated EXCEPT !.last_updated = clock],
                                ![p].entry = updated.current_deployment]
    /\ statusFile' = PartialStatusFile
    /\ dpc' = [dpc EXCEPT ![p] = "save_dump"]
    /\ clock' = clock + 1
    /\ UNCHANGED eventsFile
    /\ DepProcFrame

\* ... and writes it; the call returns
DSaveDump(p) ==
    /\ dpc[p] = "save_dump"
    /\ statusFile' \in StatusDumpOutcomes(statusFile, dloc[p].status)
    /\ dpc' = [dpc EXCEPT ![p] = "done"]
    /\ UNCHANGED <<eventsFile, clock, dloc>>
    /\ DepProcFrame

\* configure_fallback begins: the version is looked up in the registry when
\* one is given, and DeploymentStatus() is about to be constructed
CBegin(p, enabled, fallback_version) ==
    /\ dpc[p] = "idle"
    /\ ~(fallback_version # None /\ versioning /\ metaFile.state = "partial")
    /\ metaFile' = IF fallback_version # None /\ versioning
                   THEN FileAfterLoad(metaFile, now) ELSE metaFile
    /\ dloc' = [dloc EXCEPT ![p] =
                   [NoDepLocals EXCEPT !.kind = "configure_fallback",
                       !.enabled = enabled,
                       !.fallback_version = fallback_version]]
    /\ dpc' = [dpc EXCEPT ![p] = "load"]
    /\ UNCHANGED <<depFiles, clock, archive, metricsFile, now, regSeqVars,
                   regProcVars, versioning, infVars, depSeqVars>>

\* set_fallback_config changes the loaded status; _save_status opens the file
CSetFallback(p) ==
    /\ dpc[p] = "set_fallback"
    /\ dloc' = [dloc EXCEPT ![p].status =
                   [SetFallbackConfig(dloc[p].status, dloc[p].enabled,
                                      dloc[p].fallback_version)
                       EXCEPT !.last_updated = clock]]
    /\ statusFile' = PartialStatusFile
    /\ dpc' = [dpc EXCEPT ![p] = "set_dump"]
    /\ clock' = clock + 1
    /\ UNCHANGED eventsFile
    /\ DepProcFrame

\* ... and writes it
CSaveDump(p) ==
    /\ dpc[p] = "set_dump"
    /\ statusFile' \in StatusDumpOutcomes(statusFile, dloc[p].status)
    /\ dpc' = [dpc EXCEPT ![p] = "log_config"]
    /\ UNCHANGED <<eventsFile, clock, dloc>>
    /\ DepProcFrame

\* configure_fallback calls log_deployment_event(EVENT_CONFIG_CHANGE, ...)
CLogConfig(p) ==
    /\ dpc[p] = "log_config"
    /\ dloc' = [dloc EXCEPT ![p].event_type = EVENT_CONFIG_CHANGE,
                   ![p].model = "condition_model",
                   ![p].version = dloc[p].status.current_deployment.version,
                   ![p].message = FallbackMessage(dloc[p].enabled,
                                                  dloc[p].fallback_version),
                   ![p].metadata = <<dloc[p].enabled, dloc[p].fallback_version>>,
                   ![p].ts = clock]
    /\ dpc' = [dpc EXCEPT ![p] = IF eventsFile.exists THEN "append" ELSE "header"]
    /\ clock' = clock + 1
    /\ UNCHANGED depFiles
    /\ DepProcFrame

\* get_fallback_model_version or get_current_deployment_info begins:
\* DeploymentStatus() is about to be constructed
ReadBegin(p, op) ==
    /\ dpc[p] = "idle"
    /\ dloc' = [dloc EXCEPT ![p] = [NoDepLocals EXCEPT !.kind = op]]
    /\ dpc' = [dpc EXCEPT ![p] = "load"]
    /\ UNCHANGED <<depFiles, clock>>
    /\ DepProcFrame

\* the process ends in the middle of a call
DCrash(p) ==
    /\ dpc[p] \notin {"idle", "done", "crashed"}
    /\ dpc' = [dpc EXCEPT ![p] = "crashed"]
    /\ UNCHANGED <<depFiles, clock, dloc>>
    /\ DepProcFrame

NextDepProcs ==
    \/ \E p \in Procs, event_type \in {EVENT_DEPLOYMENT, EVENT_ROLLBACK, EVENT_ERROR},
          version \in {<<2, 0, 0>>, <<3, 0, 0>>} :
          DBegin(p, event_type, "condition_model", version)
    \/ \E p \in Procs : DHeader(p)
    \/ \E p \in Procs : DAppend(p)
    \/ \E p \in Procs : DLoad(p)
    \/ \E p \in Procs : DDefaultOpen(p)
    \/ \E p \in Procs : DDefaultDump(p)
    \/ \E p \in Procs : DUpdate(p)
    \/ \E p \in Procs : DSaveDump(p)
    \/ \E p \in Procs, enabled \in BOOLEAN, version \in {None, <<1, 0, 0>>} :
          CBegin(p, enabled, version)
    \/ \E p \in Procs : CSetFallback(p)
    \/ \E p \in Procs : CSaveDump(p)
    \/ \E p \in Procs : CLogConfig(p)
    \/ \E p \in Procs, op \in ReadOps : ReadBegin(p, op)
    \/ \E p \in Procs : DCrash(p)

SpecDepProcs == InitDepProcs /\ [][NextDepProcs]_vars

\* C9: when concurrent Deploy calls have all returned, the status file is the
\* one some serial order of the calls produces: the last call's deployment is
\* current and the other call's deployment heads the history.
C9_ConcurrentDeploysSerialize ==
    (\A p \in Procs : dpc[p] = "done" /\ IsDeploy(dloc[p].event_type)) =>
        /\ statusFile.state = "ok"
        /\ \E p, q \in Procs :
              /\ p # q
              /\ statusFile.data.current_deployment = dloc[q].entry
              /\ statusFile.data.deployment_history # <<>>
              /\ statusFile.data.deployment_history[1] = dloc[p].entry

----------------------------------------------------------------------------
(* Claims about the tracker, one call at a time *)

\* the list in reverse order
Reversed(seq) == [i \in 1 .. Len(seq) |-> seq[Len(seq) + 1 - i]]

\* the first n elements of a list, all of them when it is shorter
FirstN(seq, n) == IF Len(seq) > n THEN SubSeq(seq, 1, n) ELSE seq

\* a deployment without its timestamp
Undated(d) == [model |-> d.model, version |-> d.version, status |-> d.status]

\* the deployments that were current before the last Deploy, most recent
\* first: the earlier calls, then the default deployment the status began with
PreviouslyCurrent ==
    Reversed(<<Deployment("condition_model", <<1, 0, 0>>, 0, "active")>>
             \o SubSeq(deployed, 1, Len(deployed) - 1))

\* C8: after any sequence of Deploy calls, current_deployment is the entry of
\* the last call and deployment_history lists the previously current
\* deployments, most recent first, cut to the 10 most recent; it never has
\* more than 10 entries and has exactly 10 after 15 calls.
C8_HistoryIsLastTenMostRecentFirst ==
    deployed # <<>> =>
        LET status == statusFile.data
            history == status.deployment_history
            expected == FirstN(PreviouslyCurrent, 10)
        IN  /\ statusFile.state = "ok"
            /\ status.current_deployment = deployed[Len(deployed)]
            /\ Len(history) = Len(expected)
            /\ \A i \in 1 .. Len(history) :
                  /\ Undated(history[i]) = Undated(expected[i])
                  /\ i < Len(expected) \/ Len(deployed) > 10
                        => history[i] = expected[i]
            /\ Len(history) <= 10
            /\ Len(deployed) >= 15 => Len(history) = 10

\* C8's case: 15 deployments were made, of both versions
C8_Witness ==
    /\ Len(deployed) = 15
    /\ Len(statusFile.data.deployment_history) = 10
    /\ \E i, j \in 1 .. 10 :
          statusFile.data.deployment_history[i].version
              # statusFile.data.deployment_history[j].version

\* the step is a call of the tracker: it has a call's outcome in depLast'
IsDepCall(op) == nDep' = nDep + 1 /\ depLast'.op = op

\* the status a call finds: the persisted one, or the default one created on
\* first load
StatusFound == LoadedStatus(statusFile, clock)

\* C10: SetFallback changes only fallback_enabled and fallback_version:
\* current_deployment and deployment_history are the same after the call as
\* before it.
C10_SetFallbackKeepsDeployment ==
    [][IsDepCall("configure_fallback") =>
        /\ depLast'.outcome = "ok"
        /\ statusFile'.state = "ok"
        /\ statusFile'.data.current_deployment = StatusFound.current_deployment
        /\ statusFile'.data.deployment_history = StatusFound.deployment_history
        /\ statusFile'.data.fallback_enabled = depLast'.enabled
        /\ statusFile'.data.fallback_version = depLast'.version
      ]_vars

\* C10's case: the fallback was configured after two deployments
C10_Witness ==
    /\ depLast.op = "configure_fallback" /\ depLast.enabled
    /\ depLast.version = <<1, 0, 0>>
    /\ Len(statusFile.data.deployment_history) = 2
    /\ statusFile.data.current_deployment.version = <<2, 0, 0>>
    /\ statusFile.data.fallback_version = <<1, 0, 0>>

\* C11: ResolveFallbackVersion returns none when fallback is disabled, the
\* configured fallback_version when fallback is enabled and one is set,
\* otherwise the version of the first entry of deployment_history, or none when
\* the history is empty; with fallback enabled and no explicit version, after
\* Deploy(1.0.0) followed by Deploy(2.0.0) it returns 1.0.0.
C11_ResolveFallbackVersion ==
    [][IsDepCall("get_fallback") =>
        LET status == statusFile'.data
            result == depLast'.result
            n == Len(deployed)
        IN  /\ depLast'.outcome = "ok"
            /\ ~status.fallback_enabled => result = None
            /\ status.fallback_enabled /\ status.fallback_version # None
                  => result = status.fallback_version
            /\ (/\ status.fallback_enabled
                /\ status.fallback_version = None
                /\ status.deployment_history # <<>>)
                  => result = status.deployment_history[1].version
            /\ (/\ status.fallback_enabled
                /\ status.fallback_version = None
                /\ status.deployment_history = <<>>)
                  => result = None
            /\ (/\ status.fallback_enabled
                /\ status.fallback_version = None
                /\ n >= 2
                /\ deployed[n - 1].version = <<1, 0, 0>>
                /\ deployed[n].version = <<2, 0, 0>>)
                  => result = <<1, 0, 0>>
      ]_vars

\* C11's case: fallback enabled with no version, 1.0.0 then 2.0.0 deployed, and
\* the fallback version asked for
C11_Witness ==
    /\ depLast.op = "get_fallback" /\ depLast.result = <<1, 0, 0>>
    /\ statusFile.data.fallback_enabled
    /\ statusFile.data.fallback_version = None
    /\ Len(deployed) = 2
    /\ deployed[1].version = <<1, 0, 0>> /\ deployed[2].version = <<2, 0, 0>>

\* no call of the tracker is in progress: each process is idle, has returned
\* or has ended in the middle of its call
DepQuiescent == \A p \in Procs : dpc[p] \in {"idle", "done", "crashed"}

\* the event log has a row of one of the types for the model and version
HasDeployEvent(d) ==
    \E i \in 1 .. Len(eventsFile.rows) :
        /\ IsDeploy(eventsFile.rows[i].event_type)
        /\ eventsFile.rows[i].model = d.model
        /\ eventsFile.rows[i].version = d.version

\* the event log has a config_change row for the fallback configuration
HasConfigEvent(enabled, fallback_version) ==
    \E i \in 1 .. Len(eventsFile.rows) :
        /\ eventsFile.rows[i].event_type = EVENT_CONFIG_CHANGE
        /\ eventsFile.rows[i].metadata = <<enabled, fallback_version>>

\* C12: in every state the calls leave, one ended by a crash between the two
\* writes included, each change persisted to the status (a new
\* current_deployment, a changed fallback configuration) has an event of the
\* matching type in the event log: the status is never ahead of the log.
C12_StatusNeverAheadOfEventLog ==
    (DepQuiescent /\ statusFile.state = "ok") =>
        LET status == statusFile.data
        IN  /\ \/ Undated(status.current_deployment)
                    = Undated(DefaultStatus(0).current_deployment)
               \/ HasDeployEvent(status.current_deployment)
            /\ \/ /\ ~status.fallback_enabled
                  /\ status.fallback_version = None
               \/ HasConfigEvent(status.fallback_enabled, status.fallback_version)

\* C13: an inference requested without a version first attempts the version
\* of the tracker's current deployment, also when the registry's current
\* version is another one.
C13_AttemptsTrackerCurrentVersion ==
    (nInf > 0 /\ infLast.attempted # None)
        => infLast.attempted = infLast.current

\* C14: when the fallback model produced the returned score, the record of
\* the call has fallback_used true and the fallback version as its version.
C14_FallbackModelRecorded ==
    (nInf > 0 /\ infLast.tier = "fallback" /\ infLast.logged = 1)
        => /\ infLast.row.fallback_used
           /\ infLast.row.model_version = infLast.served

\* C15: when the heuristic served the call, the record of the call has
\* fallback_used true and the version "fallback".
C15_HeuristicRecorded ==
    (nInf > 0 /\ infLast.tier = "heuristic" /\ infLast.logged = 1)
        => /\ infLast.row.fallback_used
           /\ infLast.row.model_version = FallbackSentinel

\* C16: a call that returns has appended exactly one record to the audit
\* trail.
C16_ExactlyOneRecordPerCall ==
    [][(nInf' = nInf + 1 /\ ~infLast'.raised)
          => /\ auditFile'.exists
             /\ Len(auditFile'.rows) = Len(auditFile.rows) + 1]_vars

\* C17: a call returns a score between 1.0 and 5.0 and no exception,
\* whichever of the loads, the executions, the event logging and the audit
\* logging fail.
C17_ScoreInRangeNoException ==
    nInf > 0 => (~infLast.raised /\ infLast.score \in 100 .. 500)

\* every tier below the last failed and the random score was returned
C17_Witness ==
    /\ nInf > 0
    /\ infLast.tier = "random"
    /\ ~infLast.raised
    /\ infLast.score \in 100 .. 500
    /\ infLast.logged = 0
\* C18: the audit log only grows: a record once appended stays in the log,
\* unchanged, after every later operation of the audit module.
C18_AuditLogOnlyGrows ==
    [][\A i \in 1 .. Len(auditFile.rows) :
          /\ i <= Len(auditFile'.rows)
          /\ auditFile'.rows[i] = auditFile.rows[i]]_vars

\* C19: get_inferences returns the records most recent first: of two records
\* the one appended later comes earlier, also within one second, and a limit
\* n gives the n records appended last.
C19_MostRecentFirst ==
    audLast.op = "get_inferences" =>
        LET order == audLast.order
            n == Len(auditFile.rows)
        IN  /\ Len(order) = IF audLast.limit = None \/ audLast.limit[1] > n
                             THEN n ELSE audLast.limit[1]
            /\ \A a, b \in 1 .. Len(order) : a < b => order[a] > order[b]
            /\ \A a \in 1 .. Len(order) : order[a] > n - Len(order)

\* C20: get_inference_stats counts every analysed score s with
\* 1.0 <= s <= 5.0 in exactly one bucket, [1.0,2.0), [2.0,3.0), [3.0,4.0) or
\* [4.0,5.0]: 2.0 is counted in 2.0-2.9 and 5.0 in 4.0-5.0.
C20_ScoreHistogram ==
    audLast.op = "get_inference_stats" =>
        LET scores == [k \in 1 .. Len(audLast.order) |->
                          auditFile.rows[audLast.order[k]].score]
            Count(lo, hi) == Cardinality({k \in 1 .. Len(scores) :
                                             lo <= scores[k] /\ scores[k] < hi})
            dist == audLast.stats.score_distribution
        IN  /\ dist["1.0-1.9"] = Count(100, 200)
            /\ dist["2.0-2.9"] = Count(200, 300)
            /\ dist["3.0-3.9"] = Count(300, 400)
            /\ dist["4.0-5.0"] = Count(400, 501)
            /\ DOMAIN dist = ScoreBuckets

\* the statistics of a log holding the scores 2.0 and 5.0
C20_Witness ==
    /\ audLast.op = "get_inference_stats"
    /\ audLast.limit = None
    /\ Len(auditFile.rows) = 2
    /\ auditFile.rows[1].score = 200
    /\ auditFile.rows[2].score = 500
    /\ audLast.stats.score_distribution =
          [b \in ScoreBuckets |-> IF b \in {"2.0-2.9", "4.0-5.0"} THEN 1 ELSE 0]
C22_RecomputeIdempotent ==
    [][(/\ drfLast.op = "calculate_daily_drift"
        /\ drfLast.ok
        /\ drfLast'.op = "calculate_daily_drift"
        /\ drfLast'.ok
        /\ nDrf' = nDrf + 1)
          => driftFile' = driftFile]_vars

\* a second run has followed a first one on a feedback file with records
C22_Witness ==
    /\ drfLast.op = "calculate_daily_drift"
    /\ drfLast.ok
    /\ nDrf = 3
    /\ Len(feedbackFile.rows) = 1
    /\ Len(driftFile.rows) = 1

\* C23: when calculate_daily_drift reports a failure, the drift file holds
\* the records it held before the call and can be read by get_drift_trends.
C23_FailedRecomputeKeepsAggregates ==
    [][(/\ drfLast'.op = "calculate_daily_drift"
        /\ ~drfLast'.ok
        /\ nDrf' = nDrf + 1)
          => /\ driftFile'.rows = driftFile.rows
             /\ driftFile'.state # "partial"]_vars
\* C24: a mutating operation whose write of the catalog or of the status
\* file fails reports the failure; it does not return as if it had succeeded
\* with the persisted state unchanged.
C24_WriteFailureIsReported ==
    [][/\ (/\ nCalls' = nCalls + 1
           /\ ~writable.catalog
           /\ lastCall'.op \in {"register", "set_current"})
             => lastCall'.outcome # "ok"
       /\ (/\ nDep' = nDep + 1
           /\ ~writable.status
           /\ \/ depLast'.op = "configure_fallback"
              \/ depLast'.op = "log_event" /\ IsDeploy(depLast'.event_type))
             => depLast'.outcome # "ok"]_vars
\* the events a step has appended to the event log
NewEvents ==
    SubSeq(eventsFile'.rows, Len(eventsFile.rows) + 1, Len(eventsFile'.rows))

\* C25: in an inference call whose primary model fails, the error event is
\* appended before the fallback is tried; a recovery event is appended only
\* after that error event and only when the fallback model produced the
\* score; no call adds a recovery event without an error event before it.
C25_ErrorThenRecovery ==
    [][nInf' = nInf + 1 =>
          /\ infLast'.tier = "fallback" =>
                \E j \in 1 .. Len(NewEvents) : NewEvents[j].event_type = EVENT_ERROR
          /\ \A i \in 1 .. Len(NewEvents) :
                NewEvents[i].event_type = EVENT_RECOVERY =>
                    /\ \E j \in 1 .. i - 1 : NewEvents[j].event_type = EVENT_ERROR
                    /\ infLast'.tier = "fallback"]_vars
\* C26: the fallback version is resolved once, when the scorer is made: a
\* configure_fallback or a deployment made between then and a prediction
\* changes neither the preloaded fallback model that serves the prediction
\* nor the fallback version its recovery event reports.
C26_FallbackResolvedOnce ==
    [][(/\ nInf' = nInf + 1
        /\ scorer.started
        /\ scorer.sc.fallback_model # None
        /\ infLast'.tier = "fallback")
          => /\ infLast'.served = scorer.sc.fallback_model
             /\ \A i \in 1 .. Len(NewEvents) :
                   NewEvents[i].event_type = EVENT_RECOVERY =>
                       NewEvents[i].version = scorer.sc.fallback_model]_vars
\* what a deployment status says, its timestamps left aside
StatusView(file, ts) ==
    LET status == LoadedStatus(file, ts)
    IN  [current |-> status.current_deployment.version,
         history |-> [i \in 1 .. Len(status.deployment_history) |->
                         status.deployment_history[i].version],
         fallback_enabled |-> status.fallback_enabled,
         fallback_version |-> status.fallback_version]

\* C28: serving an inference leaves the deployment status as it was: the
\* current deployment, the history and the fallback configuration.
C28_InferenceLeavesStatus ==
    [][nInf' = nInf + 1
          => StatusView(statusFile', clock') = StatusView(statusFile, clock)]_vars
\* C27: a registration without a version yields a version that was not yet
\* a key of the model's versions, whatever registrations and
\* set_current_version calls came before.
C27_AutoVersionIsNew ==
    [][(IsCall("register") /\ lastCall'.requested = None
            /\ lastCall'.outcome = "ok") =>
        LET n == lastCall'.model
        IN  lastCall'.version
                \notin DOMAIN EnsureModelEntry(CatalogFound, n).models[n].versions
      ]_vars
\* C29: once a status is persisted, no step of a read-only operation
\* (get_current_deployment_info, get_fallback_model_version) changes the
\* status file, whatever a concurrent deployment or fallback configuration
\* is in the middle of writing.
C29_ReadersLeaveStatus ==
    [][\A p \in Procs :
          (dloc'[p].kind \in ReadOps /\ dpc'[p] # dpc[p]
              /\ statusFile.state = "ok") =>
          statusFile' = statusFile
      ]_vars

\* the append of process p's event row has returned
AppendReturned(p) ==
    \/ dloc[p].kind = "log_event"
          /\ dpc[p] \in {"load", "default_open", "default_dump", "update",
                          "save_dump", "done"}
    \/ dloc[p].kind = "configure_fallback" /\ dpc[p] = "done"

\* C30: for any interleaving of concurrent appends, the first ones while
\* the log does not exist included, every event whose append returned is in
\* the log exactly once and as it was written.
C30_ReturnedEventsAreLogged ==
    \A p \in Procs :
        AppendReturned(p) =>
            LET row == EventRow(dloc[p].ts, dloc[p].event_type, dloc[p].model,
                                dloc[p].version, dloc[p].message,
                                dloc[p].metadata)
            IN  Cardinality({i \in 1..Len(eventsFile.rows) :
                                eventsFile.rows[i] = row}) = 1
====
